---------------------------- MODULE Spec2Model ----------------------------
(***************************************************************************)
(* Replay engine of a concentrated-liquidity AMM (Uniswap-v3 family):      *)
(* src/pools/cl_cpmm/cl_cpmm.py (pandas) and                               *)
(* src/pools/cl_cpmm/cl_cpmm_polars.py (polars).                           *)
(*                                                                         *)
(* The two classes have the same interface and differ in a few places;     *)
(* the variable impl says which one a behaviour runs, and every operator   *)
(* that differs between the files branches on it.                          *)
(*                                                                         *)
(* Number representation.  The program computes with Python floats (IEEE   *)
(* 754 doubles) and Python integers, and so does the model:                *)
(*   - a float is a triple <<sign, e, M>> that stands for sign * M * 2^e,  *)
(*     with sign in {-1, 0, 1} and M a natural number of exactly 53 binary *)
(*     digits held as four limbs of 14 binary digits, lowest first; 0.0 is *)
(*     Zero.  Fadd, Fsub, Fmul, Fdiv and Fsqrt return the double nearest   *)
(*     the exact result, ties to even, as the machine does; Fcmp compares  *)
(*     exactly.  Numbers stay far inside the range of normal doubles.      *)
(*   - liquidity, ticks, log indices and token ids are integers;           *)
(*   - a sqrtPriceX96 given to a call is a Python integer, held as eight   *)
(*     limbs; the one the pool derives as sqrtPrice * Q96 is a float;      *)
(*   - the amounts an event reports are given in tenths of a token         *)
(*     (AScale) and turned into floats where a handler reads them          *)
(*     (amount_of); the tolerance of Swap is given in thousandths;         *)
(*   - the fee rate is held in parts per million, as the constructor gets  *)
(*     it.                                                                 *)
(* Python's None is the integer None where the slot otherwise holds an     *)
(* integer and the empty tuple NoNumber where it otherwise holds a float   *)
(* or a sqrtPriceX96; Missing stands for an attribute that was never       *)
(* created.                                                                *)
(*                                                                         *)
(* 1.0001 ** (tick / 2) and math.log are library functions whose result    *)
(* is not fixed by IEEE 754.  The model holds both as tables over the      *)
(* ticks -MaxTick .. MaxTick: the powers as the doubles nearest the exact  *)
(* powers, the logarithm as the least double sqrtPrice_to_tick takes to    *)
(* each tick (tick_start), which is the double next above                  *)
(* 1.0001 ** ((tick - 0.0000005) / 2) except where the library's rounding  *)
(* moves it by one double (StartEarly).  x ** 0.5 is the correctly rounded *)
(* square root on the prices used.                                         *)
(***************************************************************************)
EXTENDS Integers, Sequences, FiniteSets, TLC

(***************************************************************************)
(* Representation constants and pool parameters                            *)
(***************************************************************************)
None == -1000000

Missing == -2000000

NoNumber == <<>>

AScale == 10

Million == 1000000

\* constructor arguments of the pool under replay (spec section 8: fee 3000
\* ppm, tickSpacing 60)
FeePpm == 3000

tickSpacing == 60

\* cl_cpmm_polars.py Burn: positions with last_L <= 8184 are set to 0
BurnResidue == 8184

(***************************************************************************)
(* Natural numbers of any size, as tuples of limbs                         *)
(***************************************************************************)
Base == 16384

\* limb i of W, 0 outside the tuple
Limb(W, i) == IF i >= 1 /\ i <= Len(W) THEN W[i] ELSE 0

\* the number of binary digits of a limb
BitLen(x) ==
    IF x < 128
    THEN (IF x < 8 THEN (IF x < 2 THEN x ELSE IF x < 4 THEN 2 ELSE 3)
          ELSE IF x < 32 THEN (IF x < 16 THEN 4 ELSE 5)
          ELSE IF x < 64 THEN 6 ELSE 7)
    ELSE (IF x < 1024 THEN (IF x < 256 THEN 8 ELSE IF x < 512 THEN 9 ELSE 10)
          ELSE IF x < 4096 THEN (IF x < 2048 THEN 11 ELSE 12)
          ELSE IF x < 8192 THEN 13 ELSE 14)

\* the highest limb of W that is not 0, at or below limb i (0: none)
RECURSIVE TopLimb(_, _)
TopLimb(W, i) == IF i = 0 THEN 0 ELSE IF W[i] # 0 THEN i ELSE TopLimb(W, i - 1)

\* the number of binary digits of W, whose highest limb other than 0 is t
BitsTo(W, t) == IF t = 0 THEN 0 ELSE 14 * (t - 1) + BitLen(W[t])

\* the number of binary digits of W
Bits(W) == BitsTo(W, TopLimb(W, Len(W)))

\* the limbs of the number whose limb i holds T[i], a value of any sign below
\* 2^31 - 2^17 in size, where the number is not negative
RECURSIVE Carried(_, _, _, _)
CarriedOn(T, i, t, acc) == Carried(T, i + 1, t \div Base, Append(acc, t % Base))

Carried(T, i, c, acc) ==
    IF i > Len(T) THEN acc ELSE CarriedOn(T, i, T[i] + c, acc)

Limbs(T) == Carried(T, 1, 0, <<>>)

\* limb i of floor(W * 2^k), k of any sign
ShiftedLimb(W, k, i) ==
    LET a == k \div 14
        b == k % 14
    IN  (Limb(W, i - a) % 2^(14 - b)) * 2^b + Limb(W, i - a - 1) \div 2^(14 - b)

Shift4(W, k) ==
    <<ShiftedLimb(W, k, 1), ShiftedLimb(W, k, 2), ShiftedLimb(W, k, 3),
      ShiftedLimb(W, k, 4)>>

Shift8(W, k) ==
    <<ShiftedLimb(W, k, 1), ShiftedLimb(W, k, 2), ShiftedLimb(W, k, 3),
      ShiftedLimb(W, k, 4), ShiftedLimb(W, k, 5), ShiftedLimb(W, k, 6),
      ShiftedLimb(W, k, 7), ShiftedLimb(W, k, 8)>>

\* binary digit j of W (digit 0 is the lowest), and whether a digit below
\* digit j is 1
BitAt(W, j) == (Limb(W, j \div 14 + 1) \div 2^(j % 14)) % 2

AnyBelow(W, j) ==
    \/ \E i \in 1..(j \div 14) : Limb(W, i) # 0
    \/ Limb(W, j \div 14 + 1) % 2^(j % 14) # 0

\* X + Y and X - Y (for X >= Y) over the lowest n limbs
RECURSIVE SumFrom(_, _, _, _, _, _)
SumFrom(X, Y, n, i, c, acc) ==
    IF i > n THEN acc
    ELSE LET t == Limb(X, i) + Limb(Y, i) + c
         IN  SumFrom(X, Y, n, i + 1, t \div Base, Append(acc, t % Base))

Sum(X, Y, n) == SumFrom(X, Y, n, 1, 0, <<>>)

RECURSIVE DifferenceFrom(_, _, _, _, _, _)
DifferenceFrom(X, Y, n, i, c, acc) ==
    IF i > n THEN acc
    ELSE LET t == Limb(X, i) - Limb(Y, i) + c
         IN  DifferenceFrom(X, Y, n, i + 1, t \div Base, Append(acc, t % Base))

Difference(X, Y, n) == DifferenceFrom(X, Y, n, 1, 0, <<>>)

\* the order of X and Y (-1, 0, 1) over the lowest i limbs
RECURSIVE Order(_, _, _)
Order(X, Y, i) ==
    IF i = 0 THEN 0
    ELSE IF Limb(X, i) # Limb(Y, i)
         THEN (IF Limb(X, i) > Limb(Y, i) THEN 1 ELSE -1)
         ELSE Order(X, Y, i - 1)

\* the sum of X[i] * Y[k + 1 - i] over the limbs i .. Len(X) of X
RECURSIVE Column(_, _, _, _)
Column(X, Y, k, i) ==
    IF i > Len(X) \/ i > k THEN 0
    ELSE X[i] * Limb(Y, k + 1 - i) + Column(X, Y, k, i + 1)

\* the columns 1 .. n of X * Y, before the carries
Columns(X, Y, n) == <<>> \o [k \in 1..n |-> Column(X, Y, k, 1)]

\* the lowest n limbs of X * Y
Product(X, Y, n) == Limbs(Columns(X, Y, n))

\* X + Y and X - Y (for X >= Y) for X of eight limbs and Y of four
Sum8(X, Y) ==
    Limbs(<<X[1] + Y[1], X[2] + Y[2], X[3] + Y[3], X[4] + Y[4],
            X[5], X[6], X[7], X[8]>>)

Difference8(X, Y) ==
    Limbs(<<X[1] - Y[1], X[2] - Y[2], X[3] - Y[3], X[4] - Y[4],
            X[5], X[6], X[7], X[8]>>)

\* the eight limbs of X * Y for X and Y of four limbs
Product4(X, Y) ==
    Limbs(<<X[1] * Y[1],
            X[1] * Y[2] + X[2] * Y[1],
            X[1] * Y[3] + X[2] * Y[2] + X[3] * Y[1],
            X[1] * Y[4] + X[2] * Y[3] + X[3] * Y[2] + X[4] * Y[1],
            X[2] * Y[4] + X[3] * Y[3] + X[4] * Y[2],
            X[3] * Y[4] + X[4] * Y[3],
            X[4] * Y[4],
            0>>)

(***************************************************************************)
(* IEEE-754 binary64 arithmetic, round to nearest, ties to even            *)
(***************************************************************************)
\* A double other than 0 is <<sign, exp, m>>: sign is 1 or -1, m holds the
\* four limbs of a mantissa M with 2^52 <= M < 2^53, and the value is
\* sign * M * 2^exp.  0.0 is Zero.
Zero == <<0, 0, <<0, 0, 0, 0>>>>

\* the double sign * M1 * 2^e, M1 being a mantissa raised by one
RoundedUp(sign, e, M1) ==
    IF M1[4] >= 2048 THEN <<sign, e + 1, <<0, 0, 0, 1024>>>>
    ELSE <<sign, e, M1>>

\* W of more than 53 binary digits, of which k are dropped and M0 holds the
\* rest: to the nearest, ties to even
RoundedTo(sign, W, e, inexact, k, M0) ==
    IF /\ BitAt(W, k - 1) = 1
       /\ (AnyBelow(W, k - 1) \/ inexact \/ M0[1] % 2 = 1)
    THEN RoundedUp(sign, e + k, Limbs(<<M0[1] + 1, M0[2], M0[3], M0[4]>>))
    ELSE <<sign, e + k, M0>>

\* W of n binary digits
RoundedAt(sign, W, e, inexact, n) ==
    IF n = 0 THEN Zero
    ELSE IF n <= 53 THEN <<sign, e + n - 53, Shift4(W, 53 - n)>>
    ELSE RoundedTo(sign, W, e, inexact, n - 53, Shift4(W, 53 - n))

\* sign * W * 2^e rounded to a double; inexact says that the value lies
\* above W * 2^e by less than 2^e
Rounded(sign, W, e, inexact) == RoundedAt(sign, W, e, inexact, Bits(W))

\* float(n) for an integer n
Float(n) ==
    LET a == IF n >= 0 THEN n ELSE -n
    IN  Rounded(IF n >= 0 THEN 1 ELSE -1,
                <<a % Base, (a \div Base) % Base, a \div (Base * Base)>>, 0, FALSE)

Fneg(a) == <<-a[1], a[2], a[3]>>

\* x + y for x and y of opposite signs, Wx being the mantissa of x in units
\* of 2^y[2] and c the order of the two sizes
FaddOpposite(x, y, Wx, c) ==
    IF c = 0 THEN Zero
    ELSE IF c > 0 THEN Rounded(x[1], Difference8(Wx, y[3]), y[2], FALSE)
    ELSE Rounded(y[1], Difference8(y[3] \o <<0, 0, 0, 0>>, Wx), y[2], FALSE)

FaddAligned(x, y, Wx) ==
    IF x[1] = y[1] THEN Rounded(x[1], Sum8(Wx, y[3]), y[2], FALSE)
    ELSE FaddOpposite(x, y, Wx, Order(Wx, y[3], 8))

\* x + y for x[2] >= y[2], neither of them 0
FaddOrdered(x, y) ==
    IF x[2] - y[2] > 55 THEN x
    ELSE FaddAligned(x, y, Shift8(x[3], x[2] - y[2]))

\* a + b
Fadd(a, b) ==
    IF a[1] = 0 THEN b
    ELSE IF b[1] = 0 THEN a
    ELSE IF a[2] >= b[2] THEN FaddOrdered(a, b)
    ELSE FaddOrdered(b, a)

\* a - b
Fsub(a, b) == Fadd(a, Fneg(b))

\* a * b
Fmul(a, b) ==
    IF a[1] = 0 \/ b[1] = 0 THEN Zero
    ELSE Rounded(a[1] * b[1], Product4(a[3], b[3]), a[2] + b[2], FALSE)

\* one digit of a long division by the mantissa D: <<q, R'>> with
\* R * 2^14 = q * D + R' and R' < D, for R < D.  The digit is first taken
\* from the leading 30 binary digits of R * 2^14 and the leading 16 of D,
\* which gives q or q - 1.
\* R1 = R * 2^14 - q * D of five limbs, below 2 * D
DivisionRest(D, q, R1) ==
    IF Order(R1, D, 5) >= 0 THEN <<q + 1, Difference(R1, D, 4)>>
    ELSE <<q, SubSeq(R1, 1, 4)>>

DivisionDigit(R, D, q) ==
    DivisionRest(D, q, Limbs(<<0 - q * D[1], R[1] - q * D[2], R[2] - q * D[3],
                               R[3] - q * D[4], R[4]>>))

DivisionStep(R, D) ==
    DivisionDigit(R, D, (R[4] * 2^19 + R[3] * 32 + R[2] \div 512)
                            \div (D[4] * 32 + D[3] \div 512 + 1))

\* n more digits of the division by D: <<Q, R>> with the digits in Q, lowest
\* first, and the remainder R
RECURSIVE Quotient(_, _, _, _)
QuotientNext(Q, s, D, n) == Quotient(<<s[1]>> \o Q, s[2], D, n - 1)

Quotient(Q, R, D, n) ==
    IF n = 0 THEN <<Q, R>> ELSE QuotientNext(Q, DivisionStep(R, D), D, n)

\* sign * Q * 2^e with the remainder R of the division
FdivRounded(sign, e, qr) == Rounded(sign, qr[1], e, qr[2] # <<0, 0, 0, 0>>)

\* a / b, b other than 0
Fdiv(a, b) ==
    IF a[1] = 0 THEN Zero
    ELSE FdivRounded(a[1] * b[1], a[2] - b[2] - 56,
                     IF Order(a[3], b[3], 4) >= 0
                     THEN Quotient(<<1>>, Difference(a[3], b[3], 4), b[3], 4)
                     ELSE Quotient(<<0>>, a[3], b[3], 4))

\* the order of a and b: -1, 0 or 1
Fcmp(a, b) ==
    IF a[1] # b[1] THEN (IF a[1] > b[1] THEN 1 ELSE -1)
    ELSE IF a[1] = 0 THEN 0
    ELSE IF a[2] # b[2] THEN (IF a[2] > b[2] THEN a[1] ELSE -a[1])
    ELSE a[1] * Order(a[3], b[3], 4)

Flt(a, b) == Fcmp(a, b) < 0

Fle(a, b) == Fcmp(a, b) <= 0

Fgt(a, b) == Fcmp(a, b) > 0

Fge(a, b) == Fcmp(a, b) >= 0

\* the whole part of |a|, whether the first binary digit after the point is
\* 1, and whether a digit after that one is 1, for 1/2^53 < |a| < 2^31
Whole(I) == I[1] + I[2] * Base + I[3] * Base * Base

Parts(a) ==
    IF -a[2] > 54 THEN [whole |-> 0, half |-> FALSE, rest |-> TRUE]
    ELSE [whole |-> Whole(Shift4(a[3], a[2])),
          half |-> BitAt(a[3], -a[2] - 1) = 1,
          rest |-> AnyBelow(a[3], -a[2] - 1)]

\* the integer nearest a size of parts p, ties to even
NearestWhole(p) ==
    IF p.half /\ (p.rest \/ p.whole % 2 = 1) THEN p.whole + 1 ELSE p.whole

\* round(a): to the nearest integer, ties to even
PyRound(a) == IF a[1] = 0 THEN 0 ELSE a[1] * NearestWhole(Parts(a))

\* the least integer at or above a size of parts p
WholeAbove(p) == IF p.half \/ p.rest THEN p.whole + 1 ELSE p.whole

\* math.floor(a) and math.ceil(a)
Floor(a) ==
    IF a[1] = 0 THEN 0
    ELSE IF a[1] > 0 THEN Parts(a).whole
    ELSE -WholeAbove(Parts(a))

Ceil(a) == -Floor(Fneg(a))

\* the whole part of the square root of N (eight limbs, below 2^108): S with
\* the binary digits above digit j settled, the digits from j down still 0
RECURSIVE RootFrom(_, _, _)
RootFrom(N, S, j) ==
    IF j < 0 THEN S
    ELSE LET T == [S EXCEPT ![j \div 14 + 1] = @ + 2^(j % 14)]
         IN  IF Order(Product4(T, T), N, 8) <= 0 THEN RootFrom(N, T, j - 1)
             ELSE RootFrom(N, S, j - 1)

\* math.sqrt(a) for a > 0: the root S of N rounded
FsqrtRounded(a, N, S) ==
    Rounded(1, S, (a[2] - (a[2] % 2) - 54) \div 2, Product4(S, S) # N)

\* N = M * 2^54 or M * 2^55, whose exponent is even
FsqrtOf(a, N) == FsqrtRounded(a, N, RootFrom(N, <<0, 0, 0, 0>>, 53))

Fsqrt(a) == FsqrtOf(a, Shift8(a[3], 54 + (a[2] % 2)))

One == Float(1)

\* float(AScale)
Tenths == Float(AScale)

\* the amounts the Swap events of the specifications report, in tenths
SwapAmounts == {-30000, -29000, -9000, 0, 2000, 10000, 30000, 30090, 50000}

\* k / 10 for each of them, as an explicit function
SwapAmountFloats == [k \in SwapAmounts |-> Fdiv(Float(k), Tenths)] @@ <<>>

\* the float of an amount an event reports, given in tenths of a token
amount_of(k) ==
    IF k \in SwapAmounts THEN SwapAmountFloats[k] ELSE Fdiv(Float(k), Tenths)

(***************************************************************************)
(* Powers of 1.0001 ** 0.5 in fixed point: eight limbs, seven of them      *)
(* behind the point (units of 2^-98)                                       *)
(***************************************************************************)
HOne == <<0, 0, 0, 0, 0, 0, 0, 1>>

\* floor(X * Y)
Hmul(X, Y) == SubSeq(Product(X, Y, 15), 8, 15)

\* the square root of the double 1.0001 and its inverse, rounded down
Root == <<6930, 8069, 12628, 4454, 7164, 13421, 0, 1>>

RootInverse == <<743, 12127, 10062, 12205, 3829, 2963, 16383, 0>>

\* the double math.sqrt(1.0001), the base sqrtPrice_to_tick takes the
\* logarithm to, and its inverse
LogBase == <<14433, 15066, 16381, 4447, 7164, 13421, 0, 1>>

LogBaseInverse == <<9123, 3616, 6298, 12212, 3829, 2963, 16383, 0>>

\* LogBase ** -0.0000005: round(x, 6) turns over half a millionth of a tick
\* below each whole tick
HalfStep == <<6886, 10534, 3523, 890, 16274, 16383, 16383, 0>>

\* the doubles next above and next below a positive double
NextUp(a) ==
    RoundedUp(a[1], a[2], Limbs(<<a[3][1] + 1, a[3][2], a[3][3], a[3][4]>>))

NextDown(a) ==
    IF a[3] = <<0, 0, 0, 1024>>
    THEN <<a[1], a[2] - 1, <<16383, 16383, 16383, 2047>>>>
    ELSE <<a[1], a[2], Limbs(<<a[3][1] - 1, a[3][2], a[3][3], a[3][4]>>)>>

\* the double at or below a positive fixed-point value
Truncated(W) == <<1, Bits(W) - 53 - 98, Shift4(W, 53 - Bits(W))>>

\* the ticks and prices the tables cover
MaxTick == 511

\* half = <<b^0, ..., b^(m - 1)>> followed by the same times step = b^m
PowersBy(half, m, step) == half \o [i \in 1..m |-> Hmul(half[i], step)]

PowersTwice(half, b, m) == PowersBy(half, m, Hmul(half[m], b))

\* <<b^0, ..., b^(n - 1)>> for n a power of two
RECURSIVE Powers(_, _)
Powers(b, n) ==
    IF n = 1 THEN <<HOne>> ELSE PowersTwice(Powers(b, n \div 2), b, n \div 2)

RootPowers == Powers(Root, MaxTick + 1)

RootInversePowers == Powers(RootInverse, MaxTick + 1)

LogBasePowers == Powers(LogBase, MaxTick + 1)

LogBaseInversePowers == Powers(LogBaseInverse, MaxTick + 1)

\* the doubles 1.0001 ** (t / 2) for the ticks -MaxTick .. MaxTick, in order
TickPrices ==
    <<>> \o [i \in 1..(2 * MaxTick + 1) |->
               Rounded(1, IF i > MaxTick THEN RootPowers[i - MaxTick]
                          ELSE RootInversePowers[MaxTick + 2 - i], -98, TRUE)]

\* the ticks at which math.log returns a double below the one nearest the
\* exact logarithm, so that the tick starts one double earlier
StartEarly == {347}

\* the least double whose tick is n, for the ticks -MaxTick .. MaxTick, in
\* order
TickStarts ==
    <<>> \o [i \in 1..(2 * MaxTick + 1) |->
               LET n == i - MaxTick - 1
                   p == NextUp(Truncated(Hmul(IF n >= 0 THEN LogBasePowers[n + 1]
                                              ELSE LogBaseInversePowers[1 - n],
                                              HalfStep)))
               IN  IF n \in StartEarly THEN NextDown(p) ELSE p]

(***************************************************************************)
(* Price / tick mathematics                                                *)
(***************************************************************************)
\* float(1.0001 ** (tick / 2))
tick_to_sqrtPrice(t) == TickPrices[t + MaxTick + 1]

\* the least sqrtPrice that sqrtPrice_to_tick takes to tick n
tick_start(n) == TickStarts[n + MaxTick + 1]

\* the greatest tick in lo .. hi - 1 that starts at or below p, by bisection
RECURSIVE tick_between(_, _, _)
tick_between(p, lo, hi) ==
    IF hi - lo <= 1 THEN lo
    ELSE LET mid == (lo + hi) \div 2
         IN  IF Fle(tick_start(mid), p) THEN tick_between(p, mid, hi)
             ELSE tick_between(p, lo, mid)

\* math.floor(round(math.log(sqrtPrice, math.sqrt(1.0001)), 6)): the
\* greatest tick that starts at or below the given sqrtPrice
sqrtPrice_to_tick(p) == tick_between(p, -MaxTick, MaxTick + 1)

\* float(sqrtPriceX96 / self.Q96): the division of a Python integer by 2^96
\* gives the nearest double; that of a float only lowers its exponent
sqrtPriceX96_to_sqrtPrice(x) ==
    IF Len(x) = 3 THEN (IF x[1] = 0 THEN Zero ELSE <<x[1], x[2] - 96, x[3]>>)
    ELSE Rounded(1, x, -96, FALSE)

\* sqrtPrice * self.Q96, a float
times_Q96(p) == IF p[1] = 0 THEN Zero ELSE <<p[1], p[2] + 96, p[3]>>

\* tick, tick // tickSpacing * tickSpacing, the same + tickSpacing
get_tick_range(t) ==
    [tick |-> t,
     lower |-> (t \div tickSpacing) * tickSpacing,
     upper |-> (t \div tickSpacing) * tickSpacing + tickSpacing]

\* L * ((1/sqrtPriceA) - (1/sqrtPriceB)) after ordering the two prices
get_amount0(sqrtPriceA, sqrtPriceB, L) ==
    LET swap == Fgt(sqrtPriceA, sqrtPriceB)
        lo == IF swap THEN sqrtPriceB ELSE sqrtPriceA
        hi == IF swap THEN sqrtPriceA ELSE sqrtPriceB
    IN  Fmul(Float(L), Fsub(Fdiv(One, lo), Fdiv(One, hi)))

\* L * (sqrtPriceB - sqrtPriceA) after ordering the two prices
get_amount1(sqrtPriceA, sqrtPriceB, L) ==
    LET swap == Fgt(sqrtPriceA, sqrtPriceB)
        lo == IF swap THEN sqrtPriceB ELSE sqrtPriceA
        hi == IF swap THEN sqrtPriceA ELSE sqrtPriceB
    IN  Fmul(Float(L), Fsub(hi, lo))

\* (amount0, amount1) held by liquidity L of range [A, B] at price sqrtPrice
get_amounts(sqrtPrice, sqrtPriceA, sqrtPriceB, L) ==
    LET swap == Fgt(sqrtPriceA, sqrtPriceB)
        lo == IF swap THEN sqrtPriceB ELSE sqrtPriceA
        hi == IF swap THEN sqrtPriceA ELSE sqrtPriceB
    IN  IF Fle(sqrtPrice, lo) THEN <<get_amount0(lo, hi, L), Zero>>
        ELSE IF Flt(sqrtPrice, hi)
             THEN <<get_amount0(sqrtPrice, hi, L), get_amount1(lo, sqrtPrice, L)>>
             ELSE <<Zero, get_amount1(lo, hi, L)>>

\* 1 / ((amountIn / L) + (1 / sqrtPrice))
get_next_sqrtPrice_from_amount0(sqrtPrice, L, amountIn) ==
    Fdiv(One, Fadd(Fdiv(amountIn, Float(L)), Fdiv(One, sqrtPrice)))

\* sqrtPrice + (amountIn / L)
get_next_sqrtPrice_from_amount1(sqrtPrice, L, amountIn) ==
    Fadd(sqrtPrice, Fdiv(amountIn, Float(L)))

get_next_sqrtPrice_from_inputs(sqrtPrice, L, amountIn, zeroForOne) ==
    IF zeroForOne
    THEN get_next_sqrtPrice_from_amount0(sqrtPrice, L, amountIn)
    ELSE get_next_sqrtPrice_from_amount1(sqrtPrice, L, amountIn)

\* price ** 0.5
price_to_sqrtPrice(price) == Fsqrt(price)


(***************************************************************************)
(* State                                                                   *)
(***************************************************************************)
VARIABLES
    impl,          \* "pandas" (cl_cpmm.py) or "polars" (cl_cpmm_polars.py)
    sqrtPrice,     \* self.sqrtPrice, None before Initialize
    sqrtPriceX96,  \* self.sqrtPriceX96
    tick,          \* self.tick (None: not set)
    liquidity,     \* self.liquidity
    total_fee0,    \* self.total_fee0
    total_fee1,    \* self.total_fee1
    positions,     \* self.positions: the rows of the data frame, in order
    log,           \* self.mints / burns / collects / swaps, in arrival order
    pc,            \* "idle", or the place of the running Swap: "loop", "commit"
    sw,            \* local variables of the running Swap
    last,          \* the call last made and how it ended
    pre,           \* the pool as it was when that call started
    nEvents,       \* number of calls made so far
    snapshot       \* the frame the replay driver appended to pos_dfs after
                   \* the call before, as it reads now

vars == <<impl, sqrtPrice, sqrtPriceX96, tick, liquidity, total_fee0, total_fee1,
          positions, log, pc, sw, last, pre, nEvents, snapshot>>

pool == <<sqrtPrice, sqrtPriceX96, tick, liquidity, total_fee0, total_fee1>>

(***************************************************************************)
(* Bounds of the model                                                     *)
(***************************************************************************)
\* calls replayed in one behaviour
MaxEvents == 4

\* iterations of the traversal loop the model follows in one Swap
MaxSteps == 24

(***************************************************************************)
(* The position store                                                      *)
(***************************************************************************)
RECURSIVE SumOver(_, _)
SumOver(f, S) ==
    IF S = {} THEN 0
    ELSE LET i == CHOOSE j \in S : TRUE IN f[i] + SumOver(f, S \ {i})

Rows(ps) == 1..Len(ps)

\* a frame built row by row
Frame(f) == <<>> \o f

\* pos['last_L'].loc[...].sum() over the rows in S
SumL(ps, S) == SumOver([i \in Rows(ps) |-> ps[i].last_L], S)

\* rows with last_L > 0
ActiveRows(ps) == {i \in Rows(ps) : ps[i].last_L > 0}

\* active_pos['tickLower'].min(); None for an empty selection (pandas nan,
\* polars None)
lowest_tick(ps) ==
    IF ActiveRows(ps) = {} THEN None
    ELSE CHOOSE t \in {ps[i].tickLower : i \in ActiveRows(ps)} :
            \A i \in ActiveRows(ps) : t <= ps[i].tickLower

\* active_pos['tickUpper'].max()
highest_tick(ps) ==
    IF ActiveRows(ps) = {} THEN None
    ELSE CHOOSE t \in {ps[i].tickUpper : i \in ActiveRows(ps)} :
            \A i \in ActiveRows(ps) : t >= ps[i].tickUpper

\* rows whose tokenId is the given one
Matching(ps, tokenId) == {i \in Rows(ps) : ps[i].tokenId = tokenId}

\* the liquidity Mint stores: last_L over tickLower <= t < tickUpper
in_range_liquidity(ps, t) ==
    SumL(ps, {i \in Rows(ps) : ps[i].tickLower <= t /\ ps[i].tickUpper > t})

\* position_last_update_state: the coordinates of the event are written to
\* every row of the frame
position_last_update_state(ps, logIndex) ==
    Frame([i \in Rows(ps) |-> [ps[i] EXCEPT !.last_logIndex = logIndex]])

\* a row with its holdings set to the pair am
with_holdings(r, am) ==
    [r EXCEPT !.last_token0_holdings = am[1], !.last_token1_holdings = am[2]]

\* the holdings of every row recomputed from a sqrtPrice (Collect, Swap)
refresh_holdings(ps, p) ==
    Frame([i \in Rows(ps) |->
        with_holdings(ps[i],
                      get_amounts(p, tick_to_sqrtPrice(ps[i].tickLower),
                                  tick_to_sqrtPrice(ps[i].tickUpper),
                                  ps[i].last_L))])

\* the row of a position that holds amount0 and amount1
position_row(e, logIndex, amount0, amount1) ==
    [tokenId |-> e.tokenId,
     last_L |-> e.amount, start_L |-> e.amount, increase_L |-> 0,
     tickLower |-> e.tickLower, tickUpper |-> e.tickUpper,
     start_token0_holdings |-> amount0,
     start_token1_holdings |-> amount1,
     increase_token0_holdings |-> Zero, increase_token1_holdings |-> Zero,
     last_token0_holdings |-> amount0,
     last_token1_holdings |-> amount1,
     token0_fees_accrued |-> Zero, token1_fees_accrued |-> Zero,
     token0_collected |-> Zero, token1_collected |-> Zero,
     start_logIndex |-> logIndex, last_logIndex |-> logIndex]

\* the row Mint appends for an unseen tokenId
new_position(e, logIndex) ==
    position_row(e, logIndex, amount_of(e.amount0), amount_of(e.amount1))

\* the view of the positions with positive liquidity
get_active_LP_positions(ps) == SelectSeq(ps, LAMBDA r : r.last_L > 0)

(***************************************************************************)
(* Records of calls                                                        *)
(***************************************************************************)
Snapshot ==
    [sqrtPrice |-> sqrtPrice, sqrtPriceX96 |-> sqrtPriceX96, tick |-> tick,
     liquidity |-> liquidity, total_fee0 |-> total_fee0,
     total_fee1 |-> total_fee1, positions |-> positions, nlog |-> Len(log)]

NoArgs ==
    [tokenId |-> None, tickLower |-> None, tickUpper |-> None, amount |-> None,
     amount0 |-> None, amount1 |-> None, sqrtPrice |-> NoNumber,
     sqrtPriceX96 |-> NoNumber, price |-> NoNumber, tick |-> None,
     liquidity |-> None,
     warn |-> FALSE, warn_all |-> FALSE, pass_error |-> FALSE, tolerance |-> 0]

\* what a finished Swap computed (None, NoNumber: the local was never bound)
NoResult ==
    [zeroForOne |-> FALSE, tick_next |-> None, sqrtPrice_next |-> NoNumber,
     L |-> None, current_tick |-> None, steps |-> 0, branch |-> "none"]

\* args: the arguments given, None for those the call does not take
Call(event, args, err, res) ==
    [event |-> event, args |-> args @@ NoArgs, err |-> err, res |-> res]

NoSwap == [running |-> FALSE]

Init ==
    /\ impl \in {"pandas", "polars"}
    /\ sqrtPrice = NoNumber
    /\ sqrtPriceX96 = NoNumber
    \* the polars constructor sets self.tick = None, the pandas one does not
    \* create the attribute
    /\ tick = (IF impl = "polars" THEN None ELSE Missing)
    /\ liquidity = 0
    /\ total_fee0 = Zero
    /\ total_fee1 = Zero
    /\ positions = <<>>
    /\ log = <<>>
    /\ pc = "idle"
    /\ sw = NoSwap
    /\ last = Call("none", NoArgs, "ok", NoResult)
    /\ pre = [sqrtPrice |-> NoNumber, sqrtPriceX96 |-> NoNumber, tick |-> tick,
              liquidity |-> 0, total_fee0 |-> Zero, total_fee1 |-> Zero,
              positions |-> <<>>, nlog |-> 0]
    /\ nEvents = 0
    /\ snapshot = <<>>

\* what a frame bound before a call holds after the call has assigned its
\* columns: the pandas file assigns the columns of self.positions itself and
\* stores a copy afterwards, the polars file builds new frames
written_in_place(old, new) == IF impl = "pandas" THEN new ELSE old

\* the pool is idle and the stream has events left
EventsLeft == pc = "idle" /\ nEvents < MaxEvents

\* a call starts
Start ==
    /\ EventsLeft
    /\ nEvents' = nEvents + 1
    /\ pre' = Snapshot

(***************************************************************************)
(* Initialize                                                              *)
(***************************************************************************)
\* Python truthiness of an optional integer: None and 0 are false
Truthy(x) == x # None /\ x # 0

\* the same for an optional float or sqrtPriceX96
TruthyNumber(x) ==
    \/ Len(x) = 3 /\ x[1] # 0
    \/ Len(x) = 8 /\ \E i \in 1..8 : x[i] # 0

\* e: [sqrtPrice, sqrtPriceX96, price, tick, warn]; a price form not given is
\* None
Initialize(e) ==
    /\ Start
    /\ LET given == {x \in {e.sqrtPrice, e.sqrtPriceX96, e.price} : TruthyNumber(x)}
           \* the branch `price is not None` multiplies the argument
           \* sqrtPrice, which is None unless it was given too
           raisesType == e.price # NoNumber /\ e.sqrtPrice = NoNumber
           newSqrtPrice ==
               IF e.price # NoNumber THEN price_to_sqrtPrice(e.price)
               ELSE IF e.sqrtPriceX96 # NoNumber
                    THEN sqrtPriceX96_to_sqrtPrice(e.sqrtPriceX96)
                    ELSE e.sqrtPrice
           newX96 ==
               IF e.price # NoNumber THEN times_Q96(e.sqrtPrice)
               ELSE IF e.sqrtPriceX96 # NoNumber THEN e.sqrtPriceX96
               ELSE times_Q96(e.sqrtPrice)
           derived == sqrtPrice_to_tick(sqrtPrice')
       IN  IF given = {}
           THEN /\ last' = Call("Initialize", e, "IncorrectInput", NoResult)
                /\ UNCHANGED <<sqrtPrice, sqrtPriceX96, tick>>
           ELSE IF raisesType
           THEN /\ sqrtPrice' = newSqrtPrice
                /\ last' = Call("Initialize", e, "TypeError", NoResult)
                /\ UNCHANGED <<sqrtPriceX96, tick>>
           ELSE /\ sqrtPrice' = newSqrtPrice
                /\ sqrtPriceX96' = newX96
                /\ IF e.tick = None
                   THEN /\ tick' = derived
                        /\ last' = Call("Initialize", e, "ok", NoResult)
                   ELSE IF derived = e.tick
                   THEN /\ tick' = e.tick
                        /\ last' = Call("Initialize", e, "ok", NoResult)
                   ELSE IF e.warn
                   THEN \* polars stores the supplied tick, pandas stores none
                        /\ tick' = IF impl = "polars" THEN e.tick ELSE tick
                        /\ last' = Call("Initialize", e, "ok", NoResult)
                   ELSE /\ tick' = tick
                        /\ last' = Call("Initialize", e,
                                        "TickPriceAllignmentError", NoResult)
    /\ snapshot' = positions
    /\ UNCHANGED <<impl, liquidity, total_fee0, total_fee1, positions, log, pc, sw>>

\* the row a handler appends to its event table before anything else
LogRow(event, tokenId) == [event |-> event, logIndex |-> nEvents + 1, tokenId |-> tokenId]

\* The calls below are made on an initialized pool: a replayed stream opens
\* with the pool's Initialize event, so self.sqrtPrice is a number.
Initialized == sqrtPrice # NoNumber

(***************************************************************************)
(* Mint                                                                    *)
(***************************************************************************)
\* Mint on a tokenId already stored, as the polars file writes it
mint_existing_polars(ps, e) ==
    Frame([i \in Rows(ps) |->
        IF ps[i].tokenId = e.tokenId
        THEN [ps[i] EXCEPT
                !.last_L = @ + e.amount,
                !.last_token0_holdings = Fadd(@, amount_of(e.amount0)),
                !.last_token1_holdings = Fadd(@, amount_of(e.amount1)),
                !.increase_L = @ + e.amount,
                !.increase_token0_holdings = Fadd(@, amount_of(e.amount0)),
                !.increase_token1_holdings = Fadd(@, amount_of(e.amount1))]
        ELSE ps[i]])

\* Mint on a tokenId already stored, as the pandas file writes it: the
\* column increase_L is rebuilt from the column last_L (already increased),
\* masked with last_L + amount on the matching row
mint_existing_pandas(ps, e) ==
    Frame([i \in Rows(ps) |->
        IF ps[i].tokenId = e.tokenId
        THEN [ps[i] EXCEPT
                !.last_L = @ + e.amount,
                !.last_token0_holdings = Fadd(@, amount_of(e.amount0)),
                !.last_token1_holdings = Fadd(@, amount_of(e.amount1)),
                !.increase_L = (ps[i].last_L + e.amount) + e.amount,
                !.increase_token0_holdings = Fadd(@, amount_of(e.amount0)),
                !.increase_token1_holdings = Fadd(@, amount_of(e.amount1))]
        ELSE [ps[i] EXCEPT !.increase_L = ps[i].last_L]])

mint_existing(ps, e) ==
    IF impl = "pandas" THEN mint_existing_pandas(ps, e)
    ELSE mint_existing_polars(ps, e)

\* a Mint that appends a row whether or not the tokenId is stored
Mint_appending(e) ==
    /\ Start
    /\ Initialized
    /\ log' = Append(log, LogRow("Mint", e.tokenId))
    /\ LET ps == Append(positions, new_position(e, nEvents + 1))
           current_tick == sqrtPrice_to_tick(sqrtPrice)
       IN  /\ positions' = ps
           /\ liquidity' = in_range_liquidity(ps, current_tick)
           /\ snapshot' = positions
    /\ last' = Call("Mint", e, "ok", NoResult)
    /\ UNCHANGED <<impl, sqrtPrice, sqrtPriceX96, tick, total_fee0, total_fee1, pc, sw>>

\* e: [tokenId, tickLower, tickUpper, amount, amount0, amount1]
Mint(e) ==
    /\ Start
    /\ Initialized
    /\ log' = Append(log, LogRow("Mint", e.tokenId))
    /\ positions' = IF Matching(positions, e.tokenId) # {}
                    THEN position_last_update_state(mint_existing(positions, e),
                                                    nEvents + 1)
                    ELSE Append(positions, new_position(e, nEvents + 1))
    /\ LET current_tick == sqrtPrice_to_tick(sqrtPrice)
       IN  liquidity' = in_range_liquidity(positions', current_tick)
    \* a new position is concatenated into a new frame
    /\ snapshot' = IF Matching(positions, e.tokenId) # {}
                   THEN written_in_place(positions, positions')
                   ELSE positions
    /\ last' = Call("Mint", e, "ok", NoResult)
    /\ UNCHANGED <<impl, sqrtPrice, sqrtPriceX96, tick, total_fee0, total_fee1, pc, sw>>

(***************************************************************************)
(* Burn                                                                    *)
(***************************************************************************)
\* a Burn that ends without the clamp
burn_clamp_absent(ps) == ps

\* a clamp that removes the rows it would have reset
burn_clamp_dropping(ps) ==
    SelectSeq(ps, LAMBDA r : IF impl = "pandas" THEN r.last_L >= 0
                             ELSE r.last_L > BurnResidue)

\* the clamp at the end of Burn, applied to every row of the frame:
\* pandas resets last_L < 0, polars resets last_L <= 8184
burn_clamp(ps) ==
    Frame([i \in Rows(ps) |->
        IF impl = "pandas"
        THEN (IF ps[i].last_L < 0 THEN [ps[i] EXCEPT !.last_L = 0] ELSE ps[i])
        ELSE (IF ps[i].last_L <= BurnResidue THEN [ps[i] EXCEPT !.last_L = 0]
              ELSE ps[i])])

\* the masked updates of Burn without the two holdings columns
burn_update_keeping_holdings(ps, e) ==
    Frame([i \in Rows(ps) |->
        IF ps[i].tokenId = e.tokenId
        THEN [ps[i] EXCEPT !.last_L = @ - e.amount]
        ELSE ps[i]])

burn_update(ps, e) ==
    Frame([i \in Rows(ps) |->
        IF ps[i].tokenId = e.tokenId
        THEN [ps[i] EXCEPT !.last_L = @ - e.amount,
                           !.last_token0_holdings = amount_of(e.amount0),
                           !.last_token1_holdings = amount_of(e.amount1)]
        ELSE ps[i]])

\* a Burn that does not look for the position before it writes
Burn_unchecked(e) ==
    /\ Start
    /\ Initialized
    /\ log' = Append(log, LogRow("Burn", e.tokenId))
    /\ positions' =
           burn_clamp(position_last_update_state(
                          burn_update(positions, e), nEvents + 1))
    /\ last' = Call("Burn", e, "ok", NoResult)
    /\ snapshot' = written_in_place(positions, positions')
    /\ UNCHANGED <<impl, pool, pc, sw>>

\* e: [tokenId, amount, amount0, amount1]
Burn(e) ==
    /\ Start
    /\ Initialized
    /\ log' = Append(log, LogRow("Burn", e.tokenId))
    /\ IF Cardinality(Matching(positions, e.tokenId)) # 1
       THEN /\ last' = Call("Burn", e, "BurnMintMatchError", NoResult)
            /\ UNCHANGED positions
       ELSE /\ positions' =
                  burn_clamp(position_last_update_state(
                                 burn_update(positions, e), nEvents + 1))
            /\ last' = Call("Burn", e, "ok", NoResult)
    /\ snapshot' = written_in_place(positions, positions')
    /\ UNCHANGED <<impl, pool, pc, sw>>

(***************************************************************************)
(* Collect                                                                 *)
(***************************************************************************)
collect_update(ps, e) ==
    Frame([i \in Rows(ps) |->
        IF ps[i].tokenId = e.tokenId
        THEN [ps[i] EXCEPT !.token0_collected = Fadd(@, amount_of(e.amount0)),
                           !.token1_collected = Fadd(@, amount_of(e.amount1))]
        ELSE ps[i]])

\* e: [tokenId, amount0, amount1].  Called on a store that holds a position
\* (a Collect follows a Mint in the stream).
Collect(e) ==
    /\ Start
    /\ Initialized
    /\ positions # <<>>
    /\ log' = Append(log, LogRow("Collect", e.tokenId))
    /\ IF impl = "polars" /\ Cardinality(Matching(positions, e.tokenId)) # 1
       THEN \* polars raises; pandas builds a CollectMatchError and drops it
            /\ last' = Call("Collect", e, "BurnMintMatchError", NoResult)
            /\ UNCHANGED positions
       ELSE /\ positions' =
                  position_last_update_state(
                      refresh_holdings(collect_update(positions, e), sqrtPrice),
                      nEvents + 1)
            /\ last' = Call("Collect", e, "ok", NoResult)
    /\ snapshot' = written_in_place(positions, positions')
    /\ UNCHANGED <<impl, pool, pc, sw>>

(***************************************************************************)
(* Swap                                                                    *)
(***************************************************************************)
\* the zeroForOne selection with the lower boundary included
InRange_closed(ps, t, zeroForOne) ==
    {i \in Rows(ps) :
        /\ ps[i].last_L > 0
        /\ IF zeroForOne
           THEN ps[i].tickLower <= t /\ ps[i].tickUpper >= t
           ELSE ps[i].tickLower <= t /\ ps[i].tickUpper > t}

\* the filter of the traversal: zeroForOne takes tickLower < t <= tickUpper,
\* oneForZero takes tickLower <= t < tickUpper, both with last_L > 0
InRange(ps, t, zeroForOne) ==
    {i \in Rows(ps) :
        /\ ps[i].last_L > 0
        /\ IF zeroForOne
           THEN ps[i].tickLower < t /\ ps[i].tickUpper >= t
           ELSE ps[i].tickLower <= t /\ ps[i].tickUpper > t}

\* the fallback selection: active positions that start (zeroForOne) or end
\* (oneForZero) exactly at t
Pinned(ps, t, zeroForOne) ==
    {i \in Rows(ps) :
        /\ ps[i].last_L > 0
        /\ IF zeroForOne THEN ps[i].tickLower = t ELSE ps[i].tickUpper = t}

\* lowest active tickLower (zeroForOne) or highest active tickUpper
extreme_tick(ps, zeroForOne) ==
    IF zeroForOne THEN lowest_tick(ps) ELSE highest_tick(ps)

\* self.fee = fee * 10**-6
fee == Fmul(Float(FeePpm), Fdiv(One, Float(Million)))

\* round((a / (1 - self.fee)) - a), an integer
fee_in_range(a) == PyRound(Fsub(Fdiv(a, Fsub(One, fee)), a))

\* last_L * fee_per_L with fee_per_L = fee_in_range / L
fee_share(last_L, fee_collected, L) ==
    Fmul(Float(last_L), Fdiv(Float(fee_collected), Float(L)))

\* the masked column update written to the fee columns of both tokens
accrue_fees_both_sides(variant, ps, A, paid, L, zeroForOne) ==
    LET ids == {ps[j].tokenId : j \in A}
        sel(i) == IF variant = "pandas" THEN i \in A ELSE ps[i].tokenId \in ids
        gain(i) == fee_share(ps[i].last_L, paid, L)
    IN  Frame([i \in Rows(ps) |->
            IF sel(i)
            THEN [ps[i] EXCEPT !.token0_fees_accrued = Fadd(@, gain(i)),
                               !.token1_fees_accrued = Fadd(@, gain(i))]
            ELSE ps[i]])

\* the column update without its mask: every row gains last_L * (fee / L)
accrue_fees_unmasked(variant, ps, A, paid, L, zeroForOne) ==
    LET gain(i) == fee_share(ps[i].last_L, paid, L)
    IN  Frame([i \in Rows(ps) |->
            IF zeroForOne
            THEN [ps[i] EXCEPT !.token0_fees_accrued = Fadd(@, gain(i))]
            ELSE [ps[i] EXCEPT !.token1_fees_accrued = Fadd(@, gain(i))]])

\* the masked column update: every selected row gains last_L * (fee / L).
\* pandas selects by row index, polars by tokenId; variant names the file.
accrue_fees(variant, ps, A, paid, L, zeroForOne) ==
    LET ids == {ps[j].tokenId : j \in A}
        sel(i) == IF variant = "pandas" THEN i \in A ELSE ps[i].tokenId \in ids
        gain(i) == fee_share(ps[i].last_L, paid, L)
    IN  Frame([i \in Rows(ps) |->
            IF sel(i)
            THEN IF zeroForOne
                 THEN [ps[i] EXCEPT !.token0_fees_accrued = Fadd(@, gain(i))]
                 ELSE [ps[i] EXCEPT !.token1_fees_accrued = Fadd(@, gain(i))]
            ELSE ps[i]])

\* the remaining input of the side being swapped in
amount_a(s) == IF s.zeroForOne THEN s.amount0_a ELSE s.amount1_a

\* `continue` after moving one tickSpacing in the sweep direction; the local
\* sqrtPrice and the boundary price are left as they were
skip_range(s) ==
    IF s.zeroForOne
    THEN [s EXCEPT !.current_tick = s.current_tick_lower,
                   !.current_tick_lower = s.current_tick_lower - tickSpacing]
    ELSE [s EXCEPT !.current_tick = s.current_tick_upper,
                   !.current_tick_upper = s.current_tick_upper + tickSpacing]

\* pandas only: `continue` after jumping to the extreme active boundary
jump_to(s, t) ==
    IF s.zeroForOne
    THEN [s EXCEPT !.current_tick = t, !.current_tick_lower = t - tickSpacing]
    ELSE [s EXCEPT !.current_tick = t, !.current_tick_upper = t + tickSpacing]

\* the input fits in the range: compute the next price, pay the fee, break
terminal_update(variant, s, A, L, nxt, paid) ==
    [s EXCEPT !.L = L,
              !.sqrtPrice_next = nxt,
              !.tick_next = sqrtPrice_to_tick(nxt),
              !.fee_collected = @ + paid,
              !.pos = accrue_fees(variant, s.pos, A, paid, L, s.zeroForOne),
              !.brk = TRUE]

terminal_step(variant, s, A, L) ==
    terminal_update(variant, s, A, L,
                    get_next_sqrtPrice_from_inputs(s.sqrtPrice, L, amount_a(s),
                                                   s.zeroForOne),
                    fee_in_range(amount_a(s)))

\* the input exceeds the range: consume it, pay its fee, step to the boundary
cross_update(variant, s, A, L, amount0_diff, amount1_diff, paid) ==
    LET t == IF s.zeroForOne THEN s.current_tick_lower ELSE s.current_tick_upper
        nb == IF s.zeroForOne THEN t - tickSpacing ELSE t + tickSpacing
    IN  [s EXCEPT !.L = L,
                  !.fee_collected = @ + paid,
                  !.pos = accrue_fees(variant, s.pos, A, paid, L, s.zeroForOne),
                  !.amount0_a = Fsub(@, amount0_diff),
                  !.amount1_a = Fsub(@, amount1_diff),
                  !.current_tick = t,
                  !.current_tick_lower = IF s.zeroForOne THEN nb ELSE @,
                  !.current_tick_upper = IF s.zeroForOne THEN @ ELSE nb,
                  !.sqrtPrice = tick_to_sqrtPrice(t),
                  !.bound = tick_to_sqrtPrice(nb)]

cross_amounts(variant, s, A, L, amount0_diff, amount1_diff) ==
    cross_update(variant, s, A, L, amount0_diff, amount1_diff,
                 fee_in_range(IF s.zeroForOne THEN amount0_diff ELSE amount1_diff))

cross_boundary(variant, s, A, L) ==
    cross_amounts(variant, s, A, L, get_amount0(s.sqrtPrice, s.bound, L),
                  get_amount1(s.sqrtPrice, s.bound, L))

\* from `L = active_pos['last_L'].sum()` to the end of the loop body
trade_with(variant, s, A, L) ==
    IF variant = "polars" /\ L <= 0
    THEN [s EXCEPT !.L = L, !.brk = TRUE]   \* warning, break
    ELSE IF Fgt(IF s.zeroForOne THEN get_amount0(s.sqrtPrice, s.bound, L)
                ELSE get_amount1(s.sqrtPrice, s.bound, L),
                amount_a(s))
         THEN terminal_step(variant, s, A, L)
         ELSE cross_boundary(variant, s, A, L)

trade_in_range(variant, s, A) == trade_with(variant, s, A, SumL(s.pos, A))

\* one iteration of the while loop of the pandas file
loop_body_pandas(s) ==
    LET A == InRange(s.pos, s.current_tick, s.zeroForOne)
        ext == extreme_tick(s.pos, s.zeroForOne)
        \* comparisons with nan (no active position) are all False
        beyond == ext # None /\
                  (IF s.zeroForOne THEN s.current_tick < ext
                   ELSE s.current_tick > ext)
    IN  IF A # {} THEN trade_in_range("pandas", s, A)
        ELSE IF ext # None /\ s.current_tick = ext
             THEN trade_in_range("pandas", s,
                                 Pinned(s.pos, s.current_tick, s.zeroForOne))
        ELSE IF beyond THEN jump_to(s, ext)
        ELSE skip_range(s)

\* one iteration of the while loop of the polars file
loop_body_polars(s) ==
    LET A == InRange(s.pos, s.current_tick, s.zeroForOne)
        ext == extreme_tick(s.pos, s.zeroForOne)
        atOrBeyond == IF s.zeroForOne THEN s.current_tick <= ext
                      ELSE s.current_tick >= ext
    IN  IF A # {} THEN trade_in_range("polars", s, A)
        ELSE IF atOrBeyond
             THEN trade_in_range("polars", s,
                                 Pinned(s.pos, s.current_tick, s.zeroForOne))
        ELSE skip_range(s)

loop_body(s) ==
    IF impl = "pandas" THEN loop_body_pandas(s) ELSE loop_body_polars(s)

\* the tolerance of a call, given in thousandths, as the float it is
tolerance_of(k) == Fdiv(Float(k), Float(1000))

\* math.ceil(tick + (tolerance * 100)) and math.floor(tick - (tolerance * 100))
window_top(t, tolerance) ==
    Ceil(Fadd(Float(t), Fmul(tolerance_of(tolerance), Float(100))))

window_bottom(t, tolerance) ==
    Floor(Fsub(Float(t), Fmul(tolerance_of(tolerance), Float(100))))

\* not (ceil(tick + tolerance*100) >= tick_next)
\*     and (floor(tick - tolerance*100) <= tick_next)
tick_misaligned(t, tick_next, tolerance) ==
    (~(window_top(t, tolerance) >= tick_next))
        /\ (window_bottom(t, tolerance) <= tick_next)

\* liquidity * (1 + tolerance) >= L   and   liquidity * (1 - tolerance) <= L
within_upper(liq, L, tolerance) ==
    Fge(Fmul(Float(liq), Fadd(One, tolerance_of(tolerance))), Float(L))

within_lower(liq, L, tolerance) ==
    Fle(Fmul(Float(liq), Fsub(One, tolerance_of(tolerance))), Float(L))

\* not (liquidity*(1+tolerance) >= L) and (liquidity*(1-tolerance) <= L)
liquidity_misaligned(liq, L, tolerance) ==
    (~within_upper(liq, L, tolerance)) /\ within_lower(liq, L, tolerance)

\* a fee charged on every amount, whatever its sign
total_fee_signed(amount) == Fmul(amount, fee)

\* the fee of one side of a Swap: amount * self.fee when the amount (a
\* float) is positive, 0 otherwise
total_fee(amount) == IF Fgt(amount, Zero) THEN Fmul(amount, fee) ELSE Zero

\* amount - total_fee when the amount is positive, the amount itself
\* otherwise
amount_nf(amount, fee_of_side) ==
    IF Fgt(amount, Zero) THEN Fsub(amount, fee_of_side) ELSE amount

\* e: [amount0, amount1, sqrtPriceX96, tick, liquidity, warn_all, tolerance,
\*     pass_error].  The call up to the first test of the while loop.
\* self.tick = max(lowest_tick, self.tick), then min(highest_tick, self.tick);
\* comparisons with nan (pandas, no active position) are False
tick_above(t, low) == IF low # None /\ low > t THEN low ELSE t

tick_below(t, high) == IF high # None /\ high < t THEN high ELSE t

\* the local variables of Swap when the loop is first tested; r is the
\* tick range of the tick the traversal starts at
swap_locals(e, zeroForOne, amount0, amount1, fee0, fee1, r) ==
    [running |-> TRUE,
     e |-> e,
     zeroForOne |-> zeroForOne,
     total_fee0 |-> fee0,
     total_fee1 |-> fee1,
     amount0_a |-> amount_nf(amount0, fee0),
     amount1_a |-> amount_nf(amount1, fee1),
     current_tick |-> r.tick,
     current_tick_lower |-> r.lower,
     current_tick_upper |-> r.upper,
     sqrtPrice |-> sqrtPrice,
     bound |-> IF zeroForOne THEN tick_to_sqrtPrice(r.lower)
               ELSE tick_to_sqrtPrice(r.upper),
     L |-> None,
     sqrtPrice_next |-> NoNumber,
     tick_next |-> None,
     fee_collected |-> 0,
     pos |-> positions,
     steps |-> 0,
     brk |-> FALSE]

\* the fees are added to the totals, then the traversal is set up
swap_setup(e, amount0, amount1, fee0, fee1, low) ==
    /\ total_fee0' = Fadd(total_fee0, fee0)
    /\ total_fee1' = Fadd(total_fee1, fee1)
    /\ IF tick = Missing
       THEN \* `lowest_tick > self.tick`: the attribute was never created
            /\ last' = Call("Swap", e, "AttributeError", NoResult)
            /\ UNCHANGED <<tick, pc, sw>>
       ELSE IF tick = None \/ (impl = "polars" /\ low = None)
       THEN \* a comparison with None: self.tick is None, or the min() of an
            \* empty polars column is
            /\ last' = Call("Swap", e, "TypeError", NoResult)
            /\ UNCHANGED <<tick, pc, sw>>
       ELSE /\ tick' = tick_below(tick_above(tick, low), highest_tick(positions))
            /\ pc' = "loop"
            /\ last' = Call("Swap", e, "running", NoResult)
            /\ sw' = swap_locals(e, ~(e.amount1 > 0), amount0, amount1, fee0,
                                 fee1, get_tick_range(tick'))

\* amount0 and amount1 are the floats the event reports
swap_fees(e, amount0, amount1) ==
    IF ~(e.amount0 > 0) /\ ~(e.amount1 > 0)
    THEN /\ last' = Call("Swap", e, "SwapAmountError", NoResult)
         /\ UNCHANGED <<total_fee0, total_fee1, tick, pc, sw>>
    ELSE swap_setup(e, amount0, amount1, total_fee(amount0), total_fee(amount1),
                    lowest_tick(positions))

SwapBegin(e) ==
    /\ Start
    /\ Initialized
    /\ log' = Append(log, LogRow("Swap", None))
    /\ swap_fees(e, amount_of(e.amount0), amount_of(e.amount1))
    /\ snapshot' = positions
    /\ UNCHANGED <<impl, sqrtPrice, sqrtPriceX96, liquidity, positions>>

\* one iteration of the while loop; the model follows MaxSteps of them
SwapStep ==
    /\ pc = "loop"
    /\ sw.steps < MaxSteps
    /\ sw' = [loop_body(sw) EXCEPT !.steps = @ + 1]
    /\ pc' = IF sw'.brk \/ ~Fgt(amount_a(sw'), Zero) THEN "commit" ELSE "loop"
    /\ UNCHANGED <<impl, pool, positions, log, last, pre, nEvents, snapshot>>

SwapResult(branch) ==
    [zeroForOne |-> sw.zeroForOne, tick_next |-> sw.tick_next,
     sqrtPrice_next |-> sw.sqrtPrice_next, L |-> sw.L,
     current_tick |-> sw.current_tick, steps |-> sw.steps, branch |-> branch]

\* the call fails after the loop: pandas has written the fee columns of
\* self.positions in place, polars has only rebound the local frame
SwapRaise(err, branch) ==
    /\ positions' = IF impl = "pandas" THEN sw.pos ELSE positions
    /\ last' = Call("Swap", sw.e, err, SwapResult(branch))
    /\ UNCHANGED <<sqrtPrice, tick, liquidity>>

SwapStore(p, t, liq, branch) ==
    /\ sqrtPrice' = p
    /\ tick' = t
    /\ liquidity' = liq
    /\ positions' = position_last_update_state(refresh_holdings(sw.pos, p), nEvents)
    /\ last' = Call("Swap", sw.e, "ok", SwapResult(branch))

\* the state commit after the loop, the refresh of the holdings and return.
\* The tests are made in the order the code makes them: int(tick) comes
\* before int(tick_next), the liquidity is read only when the ticks agree,
\* and the reported sqrtPriceX96 is converted last (first with pass_error).
SwapCommit ==
    /\ pc = "commit"
    /\ LET e == sw.e
           reported == sqrtPriceX96_to_sqrtPrice(e.sqrtPriceX96)
       IN  IF ~(Truthy(e.liquidity) \/ Truthy(e.tick)
                    \/ TruthyNumber(e.sqrtPriceX96))
           THEN IF sw.sqrtPrice_next = NoNumber
                THEN SwapRaise("UnboundLocalError", "computed")
                ELSE SwapStore(sw.sqrtPrice_next, sw.tick_next, sw.L, "computed")
           ELSE IF e.pass_error
           THEN IF e.sqrtPriceX96 = NoNumber
                THEN SwapRaise("TypeError", "pass_error")
                ELSE SwapStore(reported, e.tick,
                               SumL(sw.pos, InRange(sw.pos, sw.current_tick, TRUE)),
                               "pass_error")
           ELSE IF e.tick = None
           THEN SwapRaise("TypeError", "tick")
           ELSE IF sw.tick_next = None
           THEN SwapRaise("UnboundLocalError", "reported")
           ELSE IF /\ ~e.warn_all
                   /\ e.tick # sw.tick_next
                   /\ tick_misaligned(e.tick, sw.tick_next, e.tolerance)
           THEN SwapRaise("SwapAllignmentError", "tick")
           ELSE IF /\ e.tick = sw.tick_next
                   /\ e.liquidity = None
           THEN \* L != None, then int(liquidity) or liquidity * (1 + tolerance)
                SwapRaise("TypeError", "liquidity")
           ELSE IF /\ ~e.warn_all
                   /\ e.tick = sw.tick_next
                   /\ sw.L # e.liquidity
                   /\ liquidity_misaligned(e.liquidity, sw.L, e.tolerance)
           THEN SwapRaise("SwapAllignmentError", "liquidity")
           ELSE IF e.sqrtPriceX96 = NoNumber
           THEN SwapRaise("TypeError", "reported")
           ELSE SwapStore(reported, e.tick, sw.L, "reported")
    /\ pc' = "idle"
    /\ sw' = NoSwap
    /\ snapshot' = written_in_place(snapshot, positions')
    /\ UNCHANGED <<impl, sqrtPriceX96, total_fee0, total_fee1, log, pre, nEvents>>

(***************************************************************************)
(* The replayed stream: the arguments the calls are made with              *)
(***************************************************************************)
\* tokenIds 1..MaxTokenId are minted; MaxTokenId + 1 is never minted
MaxTokenId == 2

TokenIds == 1..MaxTokenId

UnknownTokenId == MaxTokenId + 1

\* the sqrtPriceX96 of the sqrtPrice of a tick: the integer
\* tick_to_sqrtPrice(t) * 2^96
X96At(t) == Shift8(tick_to_sqrtPrice(t)[3], tick_to_sqrtPrice(t)[2] + 96)

\* the float n / d of two integers
Ratio(n, d) == Fdiv(Float(n), Float(d))

InitArgs(sp, x96, price, t, warn) ==
    [sqrtPrice |-> sp, sqrtPriceX96 |-> x96, price |-> price, tick |-> t,
     warn |-> warn]

MintArgs(tokenId, tickLower, tickUpper, amount, amount0, amount1) ==
    [tokenId |-> tokenId, tickLower |-> tickLower, tickUpper |-> tickUpper,
     amount |-> amount, amount0 |-> amount0, amount1 |-> amount1]

BurnArgs(tokenId, amount, amount0, amount1) ==
    [tokenId |-> tokenId, amount |-> amount, amount0 |-> amount0,
     amount1 |-> amount1]

CollectArgs(tokenId, amount0, amount1) ==
    [tokenId |-> tokenId, amount0 |-> amount0, amount1 |-> amount1]

SwapArgs(amount0, amount1, x96, t, liq, warn_all, tolerance, pass_error) ==
    [amount0 |-> amount0, amount1 |-> amount1, sqrtPriceX96 |-> x96,
     tick |-> t, liquidity |-> liq, warn_all |-> warn_all,
     tolerance |-> tolerance, pass_error |-> pass_error]

\* position ranges, multiples of tickSpacing
Ranges == {<<-60, 60>>, <<-120, -60>>, <<60, 120>>}

\* the pool is initialized at price 1 (tick 0), with the matching tick, with
\* a tick that does not match, and with the latter in warn mode
InitializeInputs ==
    {InitArgs(NoNumber, X96At(0), NoNumber, 0, FALSE),
     InitArgs(NoNumber, X96At(0), NoNumber, 5, FALSE),
     InitArgs(NoNumber, X96At(0), NoNumber, 5, TRUE)}

\* the pool is initialized at price 1 from the sqrtPrice alone, from the
\* price alone, and in warn mode with the tick of a range boundary
InitializeFormInputs ==
    {InitArgs(One, NoNumber, NoNumber, None, FALSE),
     InitArgs(NoNumber, NoNumber, One, None, FALSE),
     InitArgs(NoNumber, X96At(0), NoNumber, tickSpacing, TRUE)}

\* the pool is initialized with two forms that disagree: sqrtPrice 1 with
\* price 1.01, sqrtPrice 1 with the sqrtPriceX96 of tick 60, and the
\* sqrtPriceX96 of tick 0 with price 1.01
InitializeManyFormInputs ==
    {InitArgs(One, NoNumber, Ratio(101, 100), None, FALSE),
     InitArgs(One, X96At(60), NoNumber, None, FALSE),
     InitArgs(NoNumber, X96At(0), Ratio(101, 100), None, FALSE)}

\* liquidity of a Mint event
MintAmounts == {1000000}

\* liquidity of a Burn event: the liquidity one Mint adds, and more than that
BurnAmounts == {1000000, 1500000}

\* liquidity of a Burn event that leaves 5000 of the liquidity one Mint adds,
\* a residue that lies between 0 and BurnResidue
ResidueBurnAmounts == {995000}

\* liquidity of the Mint events of positions that share a range unequally
ShareMintAmounts == {1000000, 2000000}

\* liquidity of a Mint event that is small but positive, at most BurnResidue
SmallMintAmounts == {5000}

\* (tickLower, tickUpper) of the position a tokenId names
position_range(ps, tokenId) ==
    LET i == CHOOSE j \in Matching(ps, tokenId) : TRUE
    IN  <<ps[i].tickLower, ps[i].tickUpper>>

\* (amount0, amount1) a Mint or Burn event of the chain reports for liquidity
\* L of range r at the pool's price, in tenths of a token, rounded down
tenths(am) ==
    <<Floor(Fmul(am[1], Tenths)), Floor(Fmul(am[2], Tenths))>>

reported_amounts(r, L) ==
    tenths(get_amounts(sqrtPrice, tick_to_sqrtPrice(r[1]),
                       tick_to_sqrtPrice(r[2]), L))

\* the Mint event of liquidity a over the range r that reports the amounts am
MintOf(tokenId, r, a, am) == MintArgs(tokenId, r[1], r[2], a, am[1], am[2])

\* the Burn event of liquidity a that reports the amounts am
BurnOf(tokenId, a, am) == BurnArgs(tokenId, a, am[1], am[2])

\* a tokenId keeps its range: a Mint on a stored tokenId carries that range
mint_ranges(tokenId) ==
    IF Matching(positions, tokenId) = {} THEN Ranges
    ELSE {position_range(positions, tokenId)}

MintInputs ==
    UNION {{MintOf(id, r, a, reported_amounts(r, a)) :
                r \in mint_ranges(id), a \in MintAmounts} : id \in TokenIds}

\* mints of one or two units of liquidity over the range around tick 0 or
\* the range below it
ShareMintInputs ==
    UNION {{MintOf(id, r, a, reported_amounts(r, a)) :
                r \in mint_ranges(id) \ {<<60, 120>>},
                a \in ShareMintAmounts} : id \in TokenIds}

\* swaps without a reported state over positions of unequal liquidity: 1000
\* and 5000 token0 in, 1000 token1 in
ShareSwapInputs ==
    {SwapArgs(a[1], a[2], NoNumber, None, None, FALSE, 25, FALSE) :
        a \in {<<10000, 0>>, <<50000, 0>>, <<0, 10000>>}}

\* mints of a small liquidity
SmallMintInputs ==
    UNION {{MintOf(id, r, a, reported_amounts(r, a)) :
                r \in mint_ranges(id), a \in SmallMintAmounts} : id \in TokenIds}

BurnInputs ==
    {BurnOf(id, a,
            IF Matching(positions, id) = {} THEN <<0, 0>>
            ELSE reported_amounts(position_range(positions, id), a)) :
        id \in TokenIds \cup {UnknownTokenId}, a \in BurnAmounts}

\* burns of a stored position that leave a residue
ResidueBurnInputs ==
    UNION {{BurnOf(id, a, reported_amounts(position_range(positions, id), a)) :
                a \in ResidueBurnAmounts} :
           id \in {t \in TokenIds : Matching(positions, t) # {}}}

CollectInputs ==
    {CollectArgs(id, a, 0) : id \in TokenIds \cup {UnknownTokenId}, a \in {0, 30}}

\* swaps without a reported state: 1000 and 5000 tokens in on either side,
\* 200 tokens, both sides positive, no side positive, a usual event (one
\* side in, the other out), and a token1 input that after the fee is just
\* below the token1 reserve of 1000000 over (0, 60) at price 1
PlainSwapInputs ==
    {SwapArgs(a[1], a[2], NoNumber, None, None, FALSE, 25, FALSE) :
        a \in {<<10000, 0>>, <<50000, 0>>, <<0, 10000>>, <<0, 50000>>,
               <<2000, 0>>, <<10000, 10000>>, <<0, 0>>, <<-9000, 10000>>,
               <<-30000, 30090>>}}

\* swaps of 1000 token0 with a reported state; on a position of 1000000 over
\* (-60, 60) at price 1 the engine computes tick -20 and L = 1000000
ReportedSwapInputs ==
    {SwapArgs(10000, 0, X96At(t), t, 1000000, FALSE, tol, FALSE) :
        t \in {-25, -21, -20, -19, -15}, tol \in {0, 25}}
    \cup
    {SwapArgs(10000, 0, X96At(-20), -20, l, FALSE, 25, FALSE) :
        l \in {900000, 990000, 1010000, 1100000}}
    \cup
    {SwapArgs(10000, 0, X96At(-25), -25, 900000, TRUE, 25, FALSE),
     SwapArgs(10000, 0, X96At(-25), -25, 900000, FALSE, 25, TRUE),
     \* 1000 token1 in, with a reported state and pass_error
     SwapArgs(-9000, 10000, X96At(19), 19, 1000000, FALSE, 25, TRUE)}

\* swaps of 1000 token0 with a part of the reported state: the liquidity
\* alone, no liquidity, no sqrtPriceX96, and with pass_error no sqrtPriceX96
\* and no tick
PartialSwapInputs ==
    {SwapArgs(10000, 0, NoNumber, None, 1000000, FALSE, 25, FALSE),
     SwapArgs(10000, 0, X96At(-20), -20, None, FALSE, 25, FALSE),
     SwapArgs(10000, 0, NoNumber, -20, 1000000, FALSE, 25, FALSE),
     SwapArgs(10000, 0, NoNumber, -20, 1000000, FALSE, 25, TRUE),
     SwapArgs(10000, 0, X96At(-20), None, None, FALSE, 25, TRUE)}

SwapInputs == PlainSwapInputs \cup ReportedSwapInputs \cup PartialSwapInputs

\* the Initialize call the replay driver makes for an Initialize event: with
\* pass_error the pandas file passes warn = False and the polars file passes
\* warn = True; without it both leave warn at its default
replay_Initialize_args(x96, t, pass_error) ==
    [sqrtPrice |-> NoNumber, sqrtPriceX96 |-> x96, price |-> NoNumber, tick |-> t,
     warn |-> pass_error /\ impl = "polars", pass_error |-> pass_error]

\* Initialize events of a stream replayed with pass_error: the tick of the
\* price, and a tick that does not match
ReplayInitializeInputs ==
    {replay_Initialize_args(X96At(0), t, TRUE) : t \in {0, 5}}

\* Swap events of a stream replayed with pass_error
ReplaySwapInputs == {e \in ReportedSwapInputs : e.pass_error}

\* the pool is initialized at sqrtPrice 1 - 2^-9 = 0.998046875, in tick -40:
\* sqrtPriceX96 = 511 * 2^87
BoundaryInitializeInputs ==
    {InitArgs(NoNumber, Shift8(<<511, 0, 0, 0>>, 87), NoNumber, -40, FALSE)}

\* liquidity 512 * 2991 over (-60, 60): from that price up to tick 0 (price
\* 1) its token1 reserve is 2991 tokens, in the program's doubles too
BoundaryMintAmounts == {1531392}

BoundaryMintInputs ==
    {MintOf(id, <<-60, 60>>, a, reported_amounts(<<-60, 60>>, a)) :
        id \in TokenIds, a \in BoundaryMintAmounts}

\* swaps without a reported state: 3000 token1 in, which is 2991 after the
\* fee, 1000 and 5000 token1 in, and 1000 token0 in
BoundarySwapInputs ==
    {SwapArgs(a[1], a[2], NoNumber, None, None, FALSE, 25, FALSE) :
        a \in {<<-29000, 30000>>, <<0, 10000>>, <<0, 50000>>, <<10000, 0>>}}

\* one swap in each direction, without a reported state
StoreSwapInputs ==
    {SwapArgs(a[1], a[2], NoNumber, None, None, FALSE, 25, FALSE) :
        a \in {<<10000, 0>>, <<-9000, 10000>>}}

(***************************************************************************)
(* Specification                                                           *)
(***************************************************************************)
InitializeEvent == \E e \in InitializeInputs : Initialize(e)

InitializeFormEvent == \E e \in InitializeFormInputs : Initialize(e)

InitializeManyFormEvent == \E e \in InitializeManyFormInputs : Initialize(e)

MintEvent == EventsLeft /\ Initialized /\ \E e \in MintInputs : Mint(e)

BurnEvent == EventsLeft /\ Initialized /\ \E e \in BurnInputs : Burn(e)

ResidueBurnEvent == EventsLeft /\ Initialized /\ \E e \in ResidueBurnInputs : Burn(e)

CollectEvent == \E e \in CollectInputs : Collect(e)

SwapEvent == \E e \in SwapInputs : SwapBegin(e)

Next ==
    \/ InitializeEvent
    \/ MintEvent
    \/ BurnEvent
    \/ CollectEvent
    \/ SwapEvent
    \/ SwapStep
    \/ SwapCommit

Spec == Init /\ [][Next]_vars

\* streams of Initialize, Mint, Burn and Collect events only, the burns
\* that leave a residue included
NextLifecycle ==
    \/ InitializeEvent
    \/ MintEvent
    \/ BurnEvent
    \/ ResidueBurnEvent
    \/ CollectEvent

SpecLifecycle == Init /\ [][NextLifecycle]_vars

\* streams of Initialize, Mint and Swap events, the swaps without a reported
\* state
PlainSwapEvent == \E e \in PlainSwapInputs : SwapBegin(e)

NextSweep ==
    \/ InitializeEvent
    \/ MintEvent
    \/ PlainSwapEvent
    \/ SwapStep
    \/ SwapCommit

SpecSweep == Init /\ [][NextSweep]_vars

\* streams of Initialize, Mint and Swap events, the positions of unequal
\* liquidity
ShareMintEvent == EventsLeft /\ Initialized /\ \E e \in ShareMintInputs : Mint(e)

ShareSwapEvent == \E e \in ShareSwapInputs : SwapBegin(e)

NextShare ==
    \/ InitializeEvent
    \/ ShareMintEvent
    \/ ShareSwapEvent
    \/ SwapStep
    \/ SwapCommit

SpecShare == Init /\ [][NextShare]_vars

\* streams of Initialize, Mint and Burn events, some positions of small
\* liquidity
SmallMintEvent == EventsLeft /\ Initialized /\ \E e \in SmallMintInputs : Mint(e)

NextResidue ==
    \/ InitializeEvent
    \/ MintEvent
    \/ SmallMintEvent
    \/ BurnEvent

SpecResidue == Init /\ [][NextResidue]_vars

\* streams of Initialize events, in each form of the price, and Mint events
NextInitialize ==
    \/ InitializeEvent
    \/ InitializeFormEvent
    \/ InitializeManyFormEvent
    \/ MintEvent

SpecInitialize == Init /\ [][NextInitialize]_vars

\* streams of all five events, with one swap in each direction
StoreSwapEvent == \E e \in StoreSwapInputs : SwapBegin(e)

NextStore ==
    \/ InitializeEvent
    \/ MintEvent
    \/ BurnEvent
    \/ CollectEvent
    \/ StoreSwapEvent
    \/ SwapStep
    \/ SwapCommit

SpecStore == Init /\ [][NextStore]_vars

\* streams of Initialize, Mint and Swap events on a pool whose price and
\* reserves are exact in the program's doubles
BoundaryInitializeEvent == \E e \in BoundaryInitializeInputs : Initialize(e)

BoundaryMintEvent ==
    EventsLeft /\ Initialized /\ \E e \in BoundaryMintInputs : Mint(e)

BoundarySwapEvent == \E e \in BoundarySwapInputs : SwapBegin(e)

NextBoundary ==
    \/ BoundaryInitializeEvent
    \/ BoundaryMintEvent
    \/ BoundarySwapEvent
    \/ SwapStep
    \/ SwapCommit

SpecBoundary == Init /\ [][NextBoundary]_vars

\* streams replayed with pass_error = True
ReplayInitializeEvent == \E e \in ReplayInitializeInputs : Initialize(e)

ReplaySwapEvent == \E e \in ReplaySwapInputs : SwapBegin(e)

NextReplay ==
    \/ ReplayInitializeEvent
    \/ MintEvent
    \/ BurnEvent
    \/ ReplaySwapEvent
    \/ SwapStep
    \/ SwapCommit

SpecReplay == Init /\ [][NextReplay]_vars

(***************************************************************************)
(* Properties                                                              *)
(***************************************************************************)
\* the call last made has returned or raised
Returned(event) == pc = "idle" /\ last.event = event

Succeeded(event) == Returned(event) /\ last.err = "ok"

\* the pool's tick attribute holds a tick
HasTick(t) == t # None /\ t # Missing

\* |a|
Fabs(a) == <<a[1] * a[1], a[2], a[3]>>

\* the unit in the last place of the float a
Ulp(a) == IF a[1] = 0 THEN Zero ELSE <<1, a[2], One[3]>>

\* a is within n units in the last place of b
WithinUlps(a, b, n) == Fle(Fabs(Fsub(a, b)), Fmul(Float(n), Ulp(b)))

\* the sum of the floats f[i] over the rows in S
RECURSIVE FSumOver(_, _)
FSumOver(f, S) ==
    IF S = {} THEN Zero
    ELSE LET i == CHOOSE j \in S : \A k \in S : j <= k
         IN  Fadd(f[i], FSumOver(f, S \ {i}))

\* C1: after every successfully processed event the pool's liquidity equals
\* the sum of last_L over the positions with tickLower <= tick < tickUpper,
\* tick being the pool's current tick.
C1_LiquidityIsInRangeSum ==
    (pc = "idle" /\ last.event # "none" /\ last.err = "ok" /\ HasTick(tick))
        => liquidity = in_range_liquidity(positions, tick)

\* what row i of the store accrued in the last call, in token0 (zeroForOne)
\* or token1
fees_accrued(i, zeroForOne) ==
    IF zeroForOne
    THEN Fsub(positions[i].token0_fees_accrued,
              pre.positions[i].token0_fees_accrued)
    ELSE Fsub(positions[i].token1_fees_accrued,
              pre.positions[i].token1_fees_accrued)

\* C2: for every Swap that completes, the fees of the input token the
\* positions accrued in the swap add up to the amount the swap added to the
\* pool's fee total of that token (as floats: within one unit in the last
\* place per position).
C2_FeesConserved ==
    Succeeded("Swap") =>
        LET z == last.res.zeroForOne
            distributed ==
                FSumOver([i \in Rows(positions) |-> fees_accrued(i, z)],
                         Rows(positions))
            charged == IF z THEN Fsub(total_fee0, pre.total_fee0)
                       ELSE Fsub(total_fee1, pre.total_fee1)
        IN  WithinUlps(distributed, charged, Len(positions))

\* C3: a Swap whose amount0 and amount1 are both strictly positive, or of
\* which neither is, fails with SwapAmountError (stated for a pool that has a
\* tick and an active position, where nothing else stops the call).
C3_SwapAmountError ==
    (Returned("Swap") /\ HasTick(pre.tick) /\ ActiveRows(pre.positions) # {}
        /\ ((last.args.amount0 > 0) = (last.args.amount1 > 0)))
        => last.err = "SwapAmountError"

\* C4: the traversal loop of every Swap ends within a bounded number of
\* iterations, here MaxSteps (on a store with an active position the swaps of
\* the stream need fewer than 8).
C4_SwapTerminates == pc = "loop" => sw.steps < MaxSteps

\* On a store with no active position an iteration of the pandas loop moves
\* current_tick and nothing else: the remaining input is not reduced and the
\* loop is not left.
C4_NoProgress ==
    [][(pc = "loop" /\ impl = "pandas" /\ ActiveRows(sw.pos) = {})
        => (/\ pc' = "loop"
            /\ amount_a(sw') = amount_a(sw)
            /\ sw'.pos = sw.pos
            /\ ~sw'.brk)]_vars

\* a Swap given a reported state (sqrtPriceX96, tick and liquidity), with
\* pass_error and warn_all false, that reached the comparison of the
\* reported state with the computed one
Reconciled ==
    /\ Returned("Swap")
    /\ last.res.branch \in {"tick", "liquidity", "reported"}
    /\ last.args.sqrtPriceX96 # NoNumber
    /\ last.args.tick # None
    /\ last.args.liquidity # None
    /\ last.res.tick_next # None
    /\ ~last.args.warn_all
    /\ ~last.args.pass_error

\* C5: when the reported tick differs from the computed tick_next, the Swap
\* fails with SwapAllignmentError if and only if tick_next lies outside the
\* window of +/- tolerance*100 ticks around the reported tick, above or below.
C5_TickWindow ==
    (Reconciled /\ last.args.tick # last.res.tick_next) =>
        LET outside ==
                \/ last.res.tick_next > window_top(last.args.tick, last.args.tolerance)
                \/ last.res.tick_next < window_bottom(last.args.tick, last.args.tolerance)
        IN  (last.err = "SwapAllignmentError") <=> outside

\* C6: when the ticks agree and the reported liquidity differs from the
\* computed L, the Swap fails with SwapAllignmentError if and only if L lies
\* outside [liquidity*(1 - tolerance), liquidity*(1 + tolerance)], too high or
\* too low.
C6_LiquidityWindow ==
    (Reconciled /\ last.args.tick = last.res.tick_next
        /\ last.res.L # last.args.liquidity) =>
        LET inside ==
                /\ within_upper(last.args.liquidity, last.res.L, last.args.tolerance)
                /\ within_lower(last.args.liquidity, last.res.L, last.args.tolerance)
        IN  (last.err = "SwapAllignmentError") <=> ~inside

\* C7: a Mint for a stored tokenId adds amount to the position's last_L and
\* increase_L and amount0/amount1 to its last and increase holdings, leaves
\* its start_L and start holdings, and leaves last_L, start_L and increase_L
\* of every other position.
C7_MintExisting ==
    (Succeeded("Mint") /\ Matching(pre.positions, last.args.tokenId) # {}) =>
        \A i \in Rows(pre.positions) :
            LET old == pre.positions[i]
                new == positions[i]
                e == last.args
            IN  IF old.tokenId = e.tokenId
                THEN /\ new.last_L = old.last_L + e.amount
                     /\ new.increase_L = old.increase_L + e.amount
                     /\ new.last_token0_holdings =
                            Fadd(old.last_token0_holdings, amount_of(e.amount0))
                     /\ new.last_token1_holdings =
                            Fadd(old.last_token1_holdings, amount_of(e.amount1))
                     /\ new.increase_token0_holdings =
                            Fadd(old.increase_token0_holdings, amount_of(e.amount0))
                     /\ new.increase_token1_holdings =
                            Fadd(old.increase_token1_holdings, amount_of(e.amount1))
                     /\ new.start_L = old.start_L
                     /\ new.start_token0_holdings = old.start_token0_holdings
                     /\ new.start_token1_holdings = old.start_token1_holdings
                ELSE /\ new.last_L = old.last_L
                     /\ new.start_L = old.start_L
                     /\ new.increase_L = old.increase_L

\* C8: a Collect with amount0 = amount1 = 0 on a stored position leaves the
\* pool's sqrtPrice, tick, liquidity and fee totals and every position's
\* last_L, last holdings, accrued fees and collected amounts as they were.
C8_CollectZero ==
    (Succeeded("Collect") /\ last.args.amount0 = 0 /\ last.args.amount1 = 0
        /\ Cardinality(Matching(pre.positions, last.args.tokenId)) = 1) =>
        /\ sqrtPrice = pre.sqrtPrice
        /\ tick = pre.tick
        /\ liquidity = pre.liquidity
        /\ total_fee0 = pre.total_fee0
        /\ total_fee1 = pre.total_fee1
        /\ Len(positions) = Len(pre.positions)
        /\ \A i \in Rows(pre.positions) :
            LET old == pre.positions[i]
                new == positions[i]
            IN  /\ new.last_L = old.last_L
                /\ new.last_token0_holdings = old.last_token0_holdings
                /\ new.last_token1_holdings = old.last_token1_holdings
                /\ new.token0_fees_accrued = old.token0_fees_accrued
                /\ new.token1_fees_accrued = old.token1_fees_accrued
                /\ new.token0_collected = old.token0_collected
                /\ new.token1_collected = old.token1_collected

\* C9: every position has last_L >= 0 after every event, also after a Burn
\* whose amount exceeds the position's liquidity.
C9_LiquidityNonNegative == \A i \in Rows(positions) : positions[i].last_L >= 0

\* a Burn of more than the position held has returned and left last_L = 0
C9_BurnBeyondLiquidity ==
    /\ Succeeded("Burn")
    /\ \E i \in Rows(positions) :
        /\ positions[i].tokenId = last.args.tokenId
        /\ pre.positions[i].last_L < last.args.amount
        /\ positions[i].last_L = 0

\* C10: after every successful event the pool's tick is the tick of its
\* sqrtPrice, except right after a Swap that committed a reported tick.
C10_TickMatchesPrice ==
    (pc = "idle" /\ Initialized /\ last.event # "none" /\ last.err = "ok"
        /\ ~(last.event = "Swap" /\ last.res.branch \in {"reported", "pass_error"}))
        => tick = sqrtPrice_to_tick(sqrtPrice)

\* C11: after a Burn the burned position's last_L is its previous last_L
\* minus the burned amount when that result is above 8184, and 0 when the
\* result is negative or at most 8184
C11_BurnResidueClamp ==
    Succeeded("Burn") =>
        \A i \in Matching(pre.positions, last.args.tokenId) :
            LET result == pre.positions[i].last_L - last.args.amount
            IN  positions[i].last_L =
                    IF result <= BurnResidue THEN 0 ELSE result

\* the pool-level state of a snapshot is the pool's state now
PoolUnchanged ==
    /\ sqrtPrice = pre.sqrtPrice
    /\ sqrtPriceX96 = pre.sqrtPriceX96
    /\ tick = pre.tick
    /\ liquidity = pre.liquidity
    /\ total_fee0 = pre.total_fee0
    /\ total_fee1 = pre.total_fee1

\* the last call was a Burn on a tokenId the position store does not hold
BurnOnAbsent ==
    /\ Returned("Burn")
    /\ Matching(pre.positions, last.args.tokenId) = {}

\* C12: a Burn on a tokenId that is not in the position store fails with
\* BurnMintMatchError and changes no position (last_L, holdings, event
\* coordinates) and no pool-level state
C12_BurnAbsentFails ==
    BurnOnAbsent =>
        /\ last.err = "BurnMintMatchError"
        /\ positions = pre.positions
        /\ PoolUnchanged

\* C12 witness: a Burn on an absent tokenId has failed while the store holds
\* a position with liquidity
C12_BurnAbsentSeen ==
    /\ BurnOnAbsent
    /\ last.err = "BurnMintMatchError"
    /\ \E i \in Rows(positions) : positions[i].last_L > 0

\* C13: a Collect on a tokenId that is not in the position store is not
\* fatal: the call returns without raising, so the stream goes on
C13_CollectAbsentReturns ==
    (Returned("Collect") /\ Matching(pre.positions, last.args.tokenId) = {})
        => last.err = "ok"

\* the last Swap left its loop where the traversal found liquidity L <= 0
SwapOutOfLiquidity ==
    /\ Returned("Swap")
    /\ last.res.L # None
    /\ last.res.L <= 0

\* C14: a Swap whose traversal finds L <= 0 is aborted with a warning, not
\* an error: the commit runs and the call returns normally, also when no
\* reported state was supplied
C14_OutOfLiquidityReturns ==
    SwapOutOfLiquidity => last.err = "ok"

\* the last Swap had no reported state and its loop ended by a terminal step
\* or with the input used up at a crossed boundary
PlainSwapEnded ==
    /\ Returned("Swap")
    /\ last.res.branch = "computed"
    /\ last.res.L # None
    /\ last.res.L > 0

\* C15: a Swap with no reported sqrtPriceX96, tick and liquidity whose loop
\* ends commits sqrtPrice = sqrtPrice_next, tick = the tick of sqrtPrice_next
\* and liquidity = L of the last sub-range traversed; sqrtPrice_next and
\* tick_next are defined at the commit
C15_ComputedCommit ==
    PlainSwapEnded =>
        /\ last.err = "ok"
        /\ last.res.sqrtPrice_next # NoNumber
        /\ last.res.tick_next # None
        /\ sqrtPrice = last.res.sqrtPrice_next
        /\ tick = sqrtPrice_to_tick(last.res.sqrtPrice_next)
        /\ liquidity = last.res.L

\* C16: a Swap with pass_error and a reported state commits sqrtPrice =
\* sqrtPriceX96 / 2^96, tick = the reported tick, and liquidity = the sum of
\* last_L over the active positions that cover the final current_tick under
\* the predicate of the sweep direction (tickLower < t <= tickUpper for
\* zeroForOne, tickLower <= t < tickUpper for oneForZero)
C16_PassErrorCommit ==
    (Returned("Swap") /\ last.res.branch = "pass_error"
        /\ last.args.sqrtPriceX96 # NoNumber /\ last.args.tick # None) =>
        /\ last.err = "ok"
        /\ sqrtPrice = sqrtPriceX96_to_sqrtPrice(last.args.sqrtPriceX96)
        /\ tick = last.args.tick
        /\ liquidity =
               SumL(positions,
                    InRange(positions, last.res.current_tick,
                            last.res.zeroForOne))

\* rows of ps with liquidity over the range (lo, hi)
RowsOver(ps, lo, hi) ==
    {i \in ActiveRows(ps) : ps[i].tickLower = lo /\ ps[i].tickUpper = hi}

\* the net token0 input of the last Swap
amount0_net ==
    amount_nf(amount_of(last.args.amount0),
              total_fee(amount_of(last.args.amount0)))

\* the token0 reserve of liquidity L between tick 0 and tick -60
reserve_above(L) ==
    get_amount0(tick_to_sqrtPrice(0), tick_to_sqrtPrice(-60), L)

\* row i has accrued token0 fees in the last call
fee0_gained(i) ==
    Fgt(positions[i].token0_fees_accrued, pre.positions[i].token0_fees_accrued)

\* A = (-60, 60) and B = (-120, -60) are the active positions, the price is
\* at tick 0, and a zeroForOne Swap without a reported state has crossed -60
\* and ended in [-120, -60]
TwoRangeSweep(a, b) ==
    /\ Succeeded("Swap")
    /\ last.res.branch = "computed"
    /\ last.res.zeroForOne
    /\ pre.tick = 0
    /\ pre.sqrtPrice = tick_to_sqrtPrice(0)
    /\ RowsOver(pre.positions, -60, 60) = {a}
    /\ RowsOver(pre.positions, -120, -60) = {b}
    /\ ActiveRows(pre.positions) = {a, b}
    /\ Fge(amount0_net, reserve_above(pre.positions[a].last_L))
    /\ last.res.current_tick = -60

\* C17 as amended: the fee of sub-range [-60, 0] goes to A alone and the fee
\* of sub-range [-120, -60] goes to B alone (A's tickLower = -60 is not
\* below the current tick -60)
C17_FeeAttribution ==
    \A a, b \in Rows(pre.positions) :
        TwoRangeSweep(a, b) =>
            LET La == pre.positions[a].last_L
                Lb == pre.positions[b].last_L
                above == reserve_above(La)
                below == Fsub(amount0_net, above)
            IN  /\ positions[a].token0_fees_accrued =
                       Fadd(pre.positions[a].token0_fees_accrued,
                            fee_share(La, fee_in_range(above), La))
                /\ positions[b].token0_fees_accrued =
                       Fadd(pre.positions[b].token0_fees_accrued,
                            fee_share(Lb, fee_in_range(below), Lb))

\* C17 as stated: the fee of sub-range [-60, 0] goes to A alone and the fee
\* of sub-range [-120, -60] is shared by A and B in proportion to last_L
C17_FeeSharedBelow ==
    \A a, b \in Rows(pre.positions) :
        TwoRangeSweep(a, b) =>
            LET La == pre.positions[a].last_L
                Lb == pre.positions[b].last_L
                above == reserve_above(La)
                below == Fsub(amount0_net, above)
            IN  /\ positions[a].token0_fees_accrued =
                       Fadd(Fadd(pre.positions[a].token0_fees_accrued,
                                 fee_share(La, fee_in_range(above), La)),
                            fee_share(La, fee_in_range(below), La + Lb))
                /\ positions[b].token0_fees_accrued =
                       Fadd(pre.positions[b].token0_fees_accrued,
                            fee_share(Lb, fee_in_range(below), La + Lb))

\* C17 witness: the sweep over A and B has happened and B has accrued a fee
C17_TwoRangeSweepSeen ==
    \E a, b \in Rows(pre.positions) :
        TwoRangeSweep(a, b) /\ fee0_gained(a) /\ fee0_gained(b)

\* the forms of the price the last Initialize was given
FormsGiven ==
    {f \in {"sqrtPrice", "sqrtPriceX96", "price"} : last.args[f] # NoNumber}

\* C18: Initialize succeeds when given any single one of sqrtPrice,
\* sqrtPriceX96 and price (here without a tick to compare), and afterwards
\* both forms are set and consistent: sqrtPrice is the square root of the
\* price given, and sqrtPriceX96 is sqrtPrice * 2^96
C18_InitializeAnyForm ==
    (/\ Returned("Initialize")
     /\ Cardinality(FormsGiven) = 1
     /\ last.args.tick = None) =>
        /\ last.err = "ok"
        /\ sqrtPrice # NoNumber
        /\ sqrtPriceX96 # NoNumber
        /\ sqrtPriceX96_to_sqrtPrice(sqrtPriceX96) = sqrtPrice
        /\ last.args.price # NoNumber =>
               sqrtPrice = price_to_sqrtPrice(last.args.price)

\* the last Initialize was given a tick that is not the tick of the price
\* it stored
TickMismatch ==
    /\ Returned("Initialize")
    /\ last.err \notin {"IncorrectInput", "TypeError"}
    /\ last.args.tick # None
    /\ last.args.tick # sqrtPrice_to_tick(sqrtPrice)

\* C19: an Initialize whose tick differs from the tick of the price fails
\* with the tick-price alignment error when warn is false; when warn is true
\* it does not fail and the pool's tick is set to the tick supplied, for the
\* Mint and Swap calls that follow to read
C19_TickMismatch ==
    TickMismatch =>
        IF last.args.warn
        THEN last.err = "ok" /\ tick = last.args.tick
        ELSE last.err = "TickPriceAllignmentError"

\* C20: positions are never deleted: the tokenId of every Mint stays in the
\* position store through every later Mint, Burn, Collect and Swap; and
\* get_active_LP_positions returns exactly the positions with last_L > 0
C20_PositionsKept ==
    /\ \A k \in 1..Len(log) :
           log[k].event = "Mint" => Matching(positions, log[k].tokenId) # {}
    /\ LET active == get_active_LP_positions(positions)
       IN  /\ \A i \in Rows(positions) :
                  positions[i].last_L > 0 <=>
                      \E j \in Rows(active) : active[j] = positions[i]
           /\ \A j \in Rows(active) :
                  /\ active[j].last_L > 0
                  /\ \E i \in Rows(positions) : positions[i] = active[j]

\* C20 witness: after a later event the store holds a position that a Burn
\* emptied, which the view of the active positions leaves out, next to one
\* it returns
C20_EmptiedKept ==
    /\ pc = "idle"
    /\ last.event \in {"Mint", "Collect", "Swap"}
    /\ last.err = "ok"
    /\ \E i \in Rows(positions) : positions[i].last_L = 0
    /\ Len(get_active_LP_positions(positions)) \in 1..(Len(positions) - 1)

\* C21: after a Mint the pool's liquidity is the sum of last_L over the
\* positions with tickLower <= tick < tickUpper, tick being the tick the pool
\* has stored (also after a Swap committed a reported tick or realigned it)
C21_MintLiquidityAtStoredTick ==
    (Succeeded("Mint") /\ HasTick(tick))
        => liquidity = in_range_liquidity(positions, tick)

\* C22: a Swap that commits its computed state does not raise the price
\* when token0 is the input and does not lower it when token1 is the input
\* (stated for the swaps with one positive amount), also when the tick was
\* realigned to an active boundary before the traversal
C22_PriceFollowsDirection ==
    (Succeeded("Swap") /\ last.res.branch = "computed") =>
        /\ (last.args.amount0 > 0 /\ ~(last.args.amount1 > 0))
               => Fle(sqrtPrice, pre.sqrtPrice)
        /\ (last.args.amount1 > 0 /\ ~(last.args.amount0 > 0))
               => Fge(sqrtPrice, pre.sqrtPrice)

\* C23: the replay driver snapshots the positions after every processed
\* event, and a later event does not alter a snapshot already taken: after
\* the next event the snapshot still reads as the positions did right after
\* its own event
C23_SnapshotKept ==
    (/\ pc = "idle"
     /\ last.event # "none"
     /\ last.err = "ok"
     /\ pre.positions # <<>>) => snapshot = pre.positions

\* C24: replaying a stream with pass_error = True raises neither the
\* tick-price alignment error of Initialize nor the alignment error of Swap:
\* a mismatched tick in the Initialize event and a mismatch of the reported
\* tick or liquidity in a Swap event are accepted
C24_PassErrorAccepts ==
    (pc = "idle" /\ last.args.pass_error) =>
        last.err \notin {"TickPriceAllignmentError", "SwapAllignmentError"}

\* C25: total_fee0 and total_fee1 never decrease over a sequence of events,
\* and only Swap changes them: a call leaves both at least what they were
\* when it started, and a call that is not a Swap leaves both as they were
C25_FeeTotalsMonotone ==
    /\ Fge(total_fee0, pre.total_fee0)
    /\ Fge(total_fee1, pre.total_fee1)
    /\ last.event # "Swap" =>
           total_fee0 = pre.total_fee0 /\ total_fee1 = pre.total_fee1

\* C25 witness: a Swap with a negative amount on one side has raised the fee
\* total of the other side and left the total of its own side
C25_FeeChargedSeen ==
    /\ Succeeded("Swap")
    /\ last.args.amount0 < 0
    /\ Fgt(total_fee1, pre.total_fee1)
    /\ total_fee0 = pre.total_fee0

\* the set the loop iteration about to run selects: the filter of the
\* traversal, or the fallback selection when the filter selects nothing
step_A ==
    LET A == InRange(sw.pos, sw.current_tick, sw.zeroForOne)
        ext == extreme_tick(sw.pos, sw.zeroForOne)
        fallback == IF impl = "pandas"
                    THEN ext # None /\ sw.current_tick = ext
                    ELSE IF sw.zeroForOne THEN sw.current_tick <= ext
                         ELSE sw.current_tick >= ext
    IN  IF A # {} THEN A
        ELSE IF fallback THEN Pinned(sw.pos, sw.current_tick, sw.zeroForOne)
        ELSE {}

\* the fee of the sub-range the loop iteration traversed, in whole tokens
step_fee == sw'.fee_collected - sw.fee_collected

\* the fee column of row i of loop state s on the side swapped in, and on
\* the other side
step_column(s, i) ==
    IF sw.zeroForOne THEN s.pos[i].token0_fees_accrued
    ELSE s.pos[i].token1_fees_accrued

step_column_other(s, i) ==
    IF sw.zeroForOne THEN s.pos[i].token1_fees_accrued
    ELSE s.pos[i].token0_fees_accrued

\* row i gained a fee in the loop iteration on the side swapped in
step_gained(i) == Fgt(step_column(sw', i), step_column(sw, i))

\* C27: in each loop iteration of a Swap the fee of the sub-range is split
\* over the selected set A in proportion to last_L: each row of A gains
\* last_L * (fee_in_range / L) (L the sum of last_L over A), a row outside A
\* gains nothing, and the shares sum to fee_in_range (as floats: within one
\* unit in the last place per position).  Every iteration SwapStep takes is
\* constrained: the loop is left on the float test amount_a > 0, so the
\* iterations that follow a crossing with a remainder of some 1e-10 of a
\* token are among them; their fee_in_range rounds to 0 and no column moves
C27_FeeSplit ==
    [][(pc = "loop" /\ sw'.steps = sw.steps + 1) =>
         LET A == step_A
             L == SumL(sw.pos, A)
             shares == [i \in Rows(sw.pos) |->
                          fee_share(sw.pos[i].last_L, step_fee, L)]
         IN  /\ Len(sw'.pos) = Len(sw.pos)
             /\ \A i \in Rows(sw.pos) :
                   /\ step_column(sw', i) =
                        IF i \in A /\ step_fee # 0
                        THEN Fadd(step_column(sw, i), shares[i])
                        ELSE step_column(sw, i)
                   /\ step_column_other(sw', i) = step_column_other(sw, i)
             /\ step_fee # 0 =>
                   WithinUlps(FSumOver(shares, A), Float(step_fee),
                              Cardinality(A))]_vars

\* C27 witness: a zeroForOne Swap has paid a fee within (-60, 60), where one
\* position has twice the liquidity of the other: the first gained twice
\* what the second gained, and the two shares sum to the fee collected
C27_UnequalShareSeen ==
    /\ Succeeded("Swap")
    /\ last.res.zeroForOne
    /\ last.res.current_tick = 0
    /\ \E a, b \in Rows(pre.positions) :
          LET La == pre.positions[a].last_L
              Lb == pre.positions[b].last_L
              paid == fee_in_range(amount0_net)
          IN  /\ RowsOver(pre.positions, -60, 60) = {a, b}
              /\ La = 2 * Lb
              /\ fee0_gained(b)
              /\ positions[a].token0_fees_accrued =
                     Fadd(pre.positions[a].token0_fees_accrued,
                          fee_share(La, paid, La + Lb))
              /\ positions[b].token0_fees_accrued =
                     Fadd(pre.positions[b].token0_fees_accrued,
                          fee_share(Lb, paid, La + Lb))
              /\ fee_share(La, paid, La + Lb)
                     = Fmul(Float(2), fee_share(Lb, paid, La + Lb))
              /\ WithinUlps(Fadd(fee_share(La, paid, La + Lb),
                                 fee_share(Lb, paid, La + Lb)),
                            Float(paid), 2)

\* the holdings of the burned row are the reported amounts, the pool-level
\* state is what it was, and no row's fees accrued or collected amounts moved
BurnFrame(i) ==
    /\ positions[i].last_token0_holdings = amount_of(last.args.amount0)
    /\ positions[i].last_token1_holdings = amount_of(last.args.amount1)
    /\ PoolUnchanged
    /\ Len(positions) = Len(pre.positions)
    /\ \A j \in Rows(positions) :
          /\ positions[j].token0_fees_accrued
                = pre.positions[j].token0_fees_accrued
          /\ positions[j].token1_fees_accrued
                = pre.positions[j].token1_fees_accrued
          /\ positions[j].token0_collected = pre.positions[j].token0_collected
          /\ positions[j].token1_collected = pre.positions[j].token1_collected

\* C28 as amended: a successful Burn subtracts amount from the burned
\* position's last_L and resets the result to 0 when it is negative (in the
\* polars file: when it is at most 8184), overwrites its last_token0_holdings
\* and last_token1_holdings with the reported amount0 and amount1, and leaves
\* the pool's liquidity, sqrtPrice, tick, total_fee0, total_fee1 and every
\* position's fees accrued and collected amounts unchanged
C28_BurnEffect ==
    Succeeded("Burn") =>
        \A i \in Matching(pre.positions, last.args.tokenId) :
            LET result == pre.positions[i].last_L - last.args.amount
                floor == IF impl = "pandas" THEN -1 ELSE BurnResidue
            IN  /\ positions[i].last_L = IF result <= floor THEN 0 ELSE result
                /\ BurnFrame(i)

\* C28 as stated: a successful Burn leaves the burned position's last_L at
\* its previous value minus amount, overwrites the two holdings and leaves
\* the pool-level state and the fee columns unchanged
C28_BurnSubtracts ==
    Succeeded("Burn") =>
        \A i \in Matching(pre.positions, last.args.tokenId) :
            /\ positions[i].last_L = pre.positions[i].last_L - last.args.amount
            /\ BurnFrame(i)

\* C28 witness: a Burn of more than the position held has succeeded on a
\* position with fees accrued, and the holdings it reports differ from the
\* holdings stored before
C28_OverBurnSeen ==
    /\ Succeeded("Burn")
    /\ \E i \in Matching(pre.positions, last.args.tokenId) :
          /\ last.args.amount > pre.positions[i].last_L
          /\ pre.positions[i].last_L > 0
          /\ Fgt(pre.positions[i].token0_fees_accrued, Zero)
          /\ \/ amount_of(last.args.amount0)
                    # pre.positions[i].last_token0_holdings
             \/ amount_of(last.args.amount1)
                    # pre.positions[i].last_token1_holdings

\* C29: a Mint, Burn or Collect addressed to tokenId X leaves the last event
\* coordinates of every other position as they were
C29_OtherCoordinatesKept ==
    (pc = "idle" /\ last.event \in {"Mint", "Burn", "Collect"}
                /\ last.err = "ok") =>
        \A j \in Rows(pre.positions) :
            pre.positions[j].tokenId # last.args.tokenId =>
                positions[j].last_logIndex = pre.positions[j].last_logIndex

\* C30: when Initialize is given more than one form of the price, sqrtPrice
\* takes precedence over sqrtPriceX96 and price, and sqrtPriceX96 over price:
\* the stored sqrtPrice and sqrtPriceX96 both come from the form of highest
\* precedence that was given
C30_FormPrecedence ==
    (Returned("Initialize") /\ Cardinality(FormsGiven) > 1) =>
        IF last.args.sqrtPrice # NoNumber
        THEN /\ sqrtPrice = last.args.sqrtPrice
             /\ sqrtPriceX96 = times_Q96(last.args.sqrtPrice)
        ELSE /\ sqrtPriceX96 = last.args.sqrtPriceX96
             /\ sqrtPrice = sqrtPriceX96_to_sqrtPrice(last.args.sqrtPriceX96)

\* C31: the event tables hold exactly the events that updated the state: a
\* successful Mint, Burn, Collect or Swap adds one row, and a Burn rejected
\* with BurnMintMatchError or a Swap rejected with SwapAmountError or
\* SwapAllignmentError adds none
C31_RejectedNotLogged ==
    (pc = "idle" /\ last.event \in {"Mint", "Burn", "Collect", "Swap"}) =>
        /\ last.err = "ok" => Len(log) = pre.nlog + 1
        /\ last.err \in {"BurnMintMatchError", "SwapAmountError",
                         "SwapAllignmentError"} => Len(log) = pre.nlog

\* C32: a Swap that fails with SwapAllignmentError or SwapAmountError has no
\* partial effect: total_fee0, total_fee1, the pool's tick, sqrtPrice and
\* liquidity and every position's fees accrued are what they were before
\* the call
C32_FailedSwapNoEffect ==
    (Returned("Swap")
        /\ last.err \in {"SwapAllignmentError", "SwapAmountError"}) =>
        /\ PoolUnchanged
        /\ Len(positions) = Len(pre.positions)
        /\ \A j \in Rows(positions) :
              /\ positions[j].token0_fees_accrued
                    = pre.positions[j].token0_fees_accrued
              /\ positions[j].token1_fees_accrued
                    = pre.positions[j].token1_fees_accrued

\* C33: a Burn addressed to tokenId X changes last_L of position X only:
\* last_L of every other position is what it was before the Burn, small
\* positive values included
C33_BurnKeepsOthers ==
    Succeeded("Burn") =>
        \A j \in Rows(pre.positions) :
            pre.positions[j].tokenId # last.args.tokenId =>
                positions[j].last_L = pre.positions[j].last_L

\* the range of row i of the working frame, as prices, meets the prices the
\* loop iteration about to run trades over (both taken with their ends)
meets_step_range(i) ==
    LET lo == IF Fgt(sw.sqrtPrice, sw.bound) THEN sw.bound ELSE sw.sqrtPrice
        hi == IF Fgt(sw.sqrtPrice, sw.bound) THEN sw.sqrtPrice ELSE sw.bound
    IN  /\ Fle(tick_to_sqrtPrice(sw.pos[i].tickLower), hi)
        /\ Fle(lo, tick_to_sqrtPrice(sw.pos[i].tickUpper))

\* C34: in no loop iteration of a Swap does a position gain a fee for a
\* sub-range that its own range [tickLower, tickUpper] does not overlap; so
\* once the traversal is past the lowest active tickLower (zeroForOne) or the
\* highest active tickUpper (oneForZero) no position gains a fee
C34_FeeWithinOwnRange ==
    [][(pc = "loop" /\ sw'.steps = sw.steps + 1) =>
         \A i \in Rows(sw.pos) : step_gained(i) => meets_step_range(i)]_vars

\* the while loop of one file run from loop state s for at most n iterations
RECURSIVE swap_run(_, _, _)
swap_run(variant, s, n) ==
    IF n = 0 \/ s.brk \/ ~Fgt(amount_a(s), Zero) THEN s
    ELSE LET body == IF variant = "pandas" THEN loop_body_pandas(s)
                     ELSE loop_body_polars(s)
         IN  swap_run(variant, [body EXCEPT !.steps = @ + 1], n - 1)

\* the loop of one file has ended within MaxSteps iterations
swap_ends(variant, s) ==
    LET f == swap_run(variant, s, MaxSteps)
    IN  f.brk \/ ~Fgt(amount_a(f), Zero)

\* what a Swap without a reported state that enters its loop in state s
\* leaves behind in one file: normal return or error, the price, tick and
\* liquidity it commits, and the fee columns of self.positions (on an error
\* pandas has written them in place, polars has not); "running" when the
\* loop has not ended within MaxSteps iterations
swap_outcome(variant, s) ==
    LET f == swap_run(variant, s, MaxSteps)
        ok == f.sqrtPrice_next # NoNumber
        ended == f.brk \/ ~Fgt(amount_a(f), Zero)
        ps == IF ok \/ variant = "pandas" THEN f.pos ELSE s.pos
    IN  [err |-> IF ~ended THEN "running"
                 ELSE IF ok THEN "ok" ELSE "UnboundLocalError",
         sqrtPrice |-> IF ok THEN f.sqrtPrice_next ELSE NoNumber,
         tick |-> IF ok THEN f.tick_next ELSE None,
         liquidity |-> IF ok THEN f.L ELSE None,
         fees |-> [i \in Rows(ps) |->
                     <<ps[i].token0_fees_accrued, ps[i].token1_fees_accrued>>]]

\* C35: the pandas file and the polars file are equivalent on swaps: from
\* the same pool and position state with an active position, a Swap without
\* a reported state gives in both the same outcome (normal return or error),
\* the same fees accrued by each position and the same committed sqrtPrice,
\* tick and liquidity
C35_SameSwap ==
    (/\ pc = "loop"
     /\ sw.steps = 0
     /\ ~(Truthy(sw.e.liquidity) \/ Truthy(sw.e.tick)
            \/ TruthyNumber(sw.e.sqrtPriceX96))
     /\ ActiveRows(sw.pos) # {}
     /\ swap_ends("pandas", sw)
     /\ swap_ends("polars", sw)) =>
        swap_outcome("pandas", sw) = swap_outcome("polars", sw)

\* C36: tokenId is a unique key of the position store: no two stored
\* positions have the same tokenId, so a Burn or Collect lookup never finds
\* more than one match
C36_TokenIdUnique ==
    /\ \A i, j \in Rows(positions) :
          positions[i].tokenId = positions[j].tokenId => i = j
    /\ \A id \in TokenIds \cup {UnknownTokenId} :
          Cardinality(Matching(positions, id)) <= 1

\* C36 witness: a Mint on a tokenId already stored has succeeded on a store
\* of two positions, and the store still holds two
C36_RepeatMintSeen ==
    /\ Succeeded("Mint")
    /\ Matching(pre.positions, last.args.tokenId) # {}
    /\ Len(pre.positions) = 2
    /\ Len(positions) = 2

\* C37: a Swap accrues fees only in its input token: with amount0 > 0 and
\* amount1 <= 0 it leaves token1_fees_accrued of every position and
\* total_fee1 unchanged, with amount1 > 0 and amount0 <= 0 it leaves
\* token0_fees_accrued of every position and total_fee0 unchanged; and no
\* Swap changes a position's last_L, start_L, increase_L or collected amounts
C37_InputTokenFeesOnly ==
    Returned("Swap") =>
        /\ Len(positions) = Len(pre.positions)
        /\ (last.args.amount0 > 0 /\ last.args.amount1 <= 0) =>
              /\ total_fee1 = pre.total_fee1
              /\ \A j \in Rows(positions) :
                    positions[j].token1_fees_accrued
                      = pre.positions[j].token1_fees_accrued
        /\ (last.args.amount1 > 0 /\ last.args.amount0 <= 0) =>
              /\ total_fee0 = pre.total_fee0
              /\ \A j \in Rows(positions) :
                    positions[j].token0_fees_accrued
                      = pre.positions[j].token0_fees_accrued
        /\ \A j \in Rows(positions) :
              /\ positions[j].last_L = pre.positions[j].last_L
              /\ positions[j].start_L = pre.positions[j].start_L
              /\ positions[j].increase_L = pre.positions[j].increase_L
              /\ positions[j].token0_collected = pre.positions[j].token0_collected
              /\ positions[j].token1_collected = pre.positions[j].token1_collected

\* C37 witness: a Swap of token1 in and token0 out has succeeded and paid a
\* token1 fee to a position that has collected amounts
C37_OneSidedSwapSeen ==
    /\ Succeeded("Swap")
    /\ last.args.amount1 > 0
    /\ last.args.amount0 < 0
    /\ Fgt(total_fee1, pre.total_fee1)
    /\ \E j \in Rows(pre.positions) :
          /\ Fgt(pre.positions[j].token0_collected, Zero)
          /\ Fgt(positions[j].token1_fees_accrued,
                 pre.positions[j].token1_fees_accrued)

\* C38: an Initialize that fails with TickPriceAllignmentError leaves the
\* pool state unchanged: sqrtPrice, sqrtPriceX96 and tick have the values
\* they had before the call
C38_FailedInitializeNoEffect ==
    (Returned("Initialize") /\ last.err = "TickPriceAllignmentError") =>
        /\ sqrtPrice = pre.sqrtPrice
        /\ sqrtPriceX96 = pre.sqrtPriceX96
        /\ tick = pre.tick

====
